---- MODULE Spec2Model ----
(***************************************************************************)
(* The COP1 floating-point coprocessor of r64emu                           *)
(* (emu/cpu/mips64/src/fpu.rs) as a state machine.                         *)
(*                                                                         *)
(* Machine words are sets of bit positions: a u64 is a subset of 0..63, a  *)
(* u32 a subset of 0..31, bit k of w is set iff k \in w.  All 64 bits of a *)
(* register are kept, and shifts and sums drop what leaves the word.       *)
(* A non-negative dyadic rational (the magnitude of a float) is likewise a *)
(* finite set of integer positions, position k weighing 2^k, k < 0 for the *)
(* fractional bits.                                                        *)
(***************************************************************************)
EXTENDS Integers, FiniteSets, Sequences, TLC

(***************************************************************************)
(* Words                                                                   *)
(***************************************************************************)
W64 == 0..63
W32 == 0..31

\* the word of a small natural number (n < 2^31)
Lit(n) == {k \in 0..30 : (n \div (2 ^ k)) % 2 = 1}

RECURSIVE ToNat(_)
\* the natural number of a small word (w < 2^31)
ToNat(w) ==
  IF w = {} THEN 0
  ELSE LET k == CHOOSE k \in w : TRUE IN (2 ^ k) + ToNat(w \ {k})

And(a, b) == a \cap b
Or(a, b) == a \cup b
Not(a) == W64 \ a
Shl(w, n) == {k + n : k \in w} \cap W64
Shr(w, n) == {k - n : k \in {j \in w : j >= n}}
BoolWord(b) == IF b THEN {0} ELSE {}

(***************************************************************************)
(* Dyadic magnitudes: exact arithmetic on sets of bit positions            *)
(***************************************************************************)
DMax(m) == CHOOSE k \in m : \A j \in m : j <= k
DMin(m) == CHOOSE k \in m : \A j \in m : j >= k
DXor(a, b) == (a \ b) \cup (b \ a)
DShift(m, n) == {k + n : k \in m}
DLt(a, b) == a # b /\ DMax(DXor(a, b)) \in b
DLe(a, b) == a = b \/ DLt(a, b)

\* a + b, given x = a xor b.  The carry into position k comes from the
\* highest position below k where a and b agree, when both have a bit there.
DAddX(a, b, x) ==
  LET Carry(k) ==
        LET run == {j \in x : j < k /\ \A t \in j..(k - 1) : t \in x}
            i == IF run = {} THEN k - 1 ELSE DMin(run) - 1
        IN i \in a /\ i \in b
  IN {k \in a \cup b \cup DShift(a \cup b, 1) : (k \in x) # Carry(k)}

DAdd(a, b) == DAddX(a, b, DXor(a, b))

\* a - b for a >= b, given x = a xor b.  Position k borrows when, at the
\* highest position below k where a and b differ, the bit is b's.
DSubX(a, b, x) ==
  LET Borrow(k) ==
        LET d == {i \in x : i < k}
        IN d # {} /\ DMax(d) \in b
  IN {k \in a : k < DMin(b)}
       \cup {k \in DMin(b)..DMax(a) : (k \in x) # Borrow(k)}

DSub(a, b) == IF b = {} THEN a ELSE DSubX(a, b, DXor(a, b))

\* G applied to t, t computed first (an argument is otherwise computed only
\* when the operator reads it)
Strict(t, G(_)) == IF t = t THEN G(t) ELSE G(t)

\* F applied 2, 4, ... 64 times.  The arithmetic below runs a step that
\* leaves a finished state as it is, as many times as its longest run needs.
It2(F(_), s) == Strict(F(s), F)
It4(F(_), s) == Strict(It2(F, s), LAMBDA t : It2(F, t))
It8(F(_), s) == Strict(It4(F, s), LAMBDA t : It4(F, t))
It16(F(_), s) == Strict(It8(F, s), LAMBDA t : It8(F, t))
It32(F(_), s) == Strict(It16(F, s), LAMBDA t : It16(F, t))
It64(F(_), s) == Strict(It32(F, s), LAMBDA t : It32(F, t))

\* a * b, b of at most 64 bits: the shifted copies of a are summed
DMul(a, b) ==
  LET MulStep(s) ==
        IF s[2] = {} THEN s
        ELSE LET k == DMax(s[2])
             IN <<DAdd(s[1], DShift(a, k)), s[2] \ {k}>>
  IN It64(MulStep, <<{}, b>>)[1]

\* long division of a by b: the quotient bits at positions hi down to lo
\* (at most 64 of them), and one sticky bit at lo - 1 when a remainder is
\* left; s = <<remainder, quotient so far, position>>
DDiv(a, b, lo) ==
  LET DivStep(s) ==
        IF s[3] < lo \/ s[1] = {} THEN s
        ELSE LET d == DShift(b, s[3])
             IN IF DLe(d, s[1])
                  THEN <<DSub(s[1], d), s[2] \cup {s[3]}, s[3] - 1>>
                  ELSE <<s[1], s[2], s[3] - 1>>
      r == It64(DivStep, <<a, {}, DMax(a) - DMax(b)>>)
  IN IF r[1] = {} THEN r[2] ELSE r[2] \cup {lo - 1}

\* digit-by-digit square root of a: the root bits at positions hi down to
\* lo (at most 64 of them), and one sticky bit at lo - 1 when the root is not
\* exact; s = <<remainder, root so far, position>>, and
\* (r + 2^p)^2 = r^2 + r * 2^(p+1) + 2^(2p)
DSqrt(a, hi, lo) ==
  LET SqrtStep(s) ==
        IF s[3] < lo \/ s[1] = {} THEN s
        ELSE LET t == DAdd(DShift(s[2], s[3] + 1), {2 * s[3]})
             IN IF DLe(t, s[1])
                  THEN <<DSub(s[1], t), s[2] \cup {s[3]}, s[3] - 1>>
                  ELSE <<s[1], s[2], s[3] - 1>>
      r == It64(SqrtStep, <<a, {}, hi>>)
  IN IF r[1] = {} THEN r[2] ELSE r[2] \cup {lo - 1}

\* round a magnitude to the multiples of 2^q, ties to even
RoundAt(m, q) ==
  LET kept == {k \in m : k >= q}
      up == (q - 1) \in m /\ (q \in m \/ \E k \in m : k < q - 1)
  IN IF up THEN DAdd(kept, {q}) ELSE kept

\* the integer part of a magnitude
DTrunc(m) == {k \in m : k >= 0}
DIsInt(m) == \A k \in m : k >= 0

(***************************************************************************)
(* IEEE-754 binary32 / binary64 values, held as their bit patterns.  M is  *)
(* the float type of the instruction: "f32" (format 16), "f64" (format 17) *)
(***************************************************************************)
Widths == {"f32", "f64"}
FracBits(M) == IF M = "f32" THEN 23 ELSE 52
ExpBits(M) == IF M = "f32" THEN 8 ELSE 11
Bias(M) == IF M = "f32" THEN 127 ELSE 1023
SignBit(M) == IF M = "f32" THEN 31 ELSE 63
\* position of the lowest bit of a subnormal
MinPos(M) == 1 - Bias(M) - FracBits(M)
ExpAll(M) == (2 ^ ExpBits(M)) - 1

ExpField(M, x) == ToNat(And(Shr(x, FracBits(M)), 0..(ExpBits(M) - 1)))
Frac(M, x) == And(x, 0..(FracBits(M) - 1))
Sign(M, x) == SignBit(M) \in x
InfPat(M) == Shl(Lit(ExpAll(M)), FracBits(M))
QNaN(M) == InfPat(M) \cup {FracBits(M) - 1}
SignPat(M, s) == IF s THEN {SignBit(M)} ELSE {}

is_nan(M, x) == ExpField(M, x) = ExpAll(M) /\ Frac(M, x) # {}
is_infinite(M, x) == ExpField(M, x) = ExpAll(M) /\ Frac(M, x) = {}
is_finite(M, x) == ExpField(M, x) # ExpAll(M)
is_zero(M, x) == x \ {SignBit(M)} = {}

\* the magnitude of a finite value
Mag(M, x) ==
  IF ExpField(M, x) = 0
    THEN DShift(Frac(M, x), MinPos(M))
    ELSE DShift(Frac(M, x) \cup {FracBits(M)},
                ExpField(M, x) - Bias(M) - FracBits(M))

\* the pattern of (-1)^s * m, rounded to nearest, ties to even
Pack(M, s, m) ==
  IF m = {} THEN SignPat(M, s)
  ELSE LET hm == DMax(m) - FracBits(M)
           q == IF hm > MinPos(M) THEN hm ELSE MinPos(M)
           r == RoundAt(m, q)
       IN IF r = {} THEN SignPat(M, s)
          ELSE LET h == DMax(r)
               IN IF h > Bias(M) THEN InfPat(M) \cup SignPat(M, s)
                  ELSE IF h >= 1 - Bias(M)
                    THEN SignPat(M, s) \cup Shl(Lit(h + Bias(M)), FracBits(M))
                           \cup DShift(r \ {h}, FracBits(M) - h)
                    ELSE SignPat(M, s) \cup DShift(r, 0 - MinPos(M))

\* Rust's `<` and `==` on floats: false whenever an operand is NaN; the
\* patterns of non-NaN values order as sign and magnitude, -0 equal to +0
lt(M, x, y) ==
  /\ ~is_nan(M, x) /\ ~is_nan(M, y)
  /\ LET mx == x \ {SignBit(M)}
         my == y \ {SignBit(M)}
     IN IF Sign(M, x)
          THEN IF Sign(M, y) THEN DLt(my, mx) ELSE mx # {} \/ my # {}
          ELSE ~Sign(M, y) /\ DLt(mx, my)

eq(M, x, y) ==
  /\ ~is_nan(M, x) /\ ~is_nan(M, y)
  /\ (x = y \/ (is_zero(M, x) /\ is_zero(M, y)))

\* The NaN an operation returns.  IEEE-754 leaves its sign and payload to
\* the implementation: an operand NaN comes back quieted, an invalid
\* operation gives the default NaN of the host, of either sign.
NaNOut(M, x, y) ==
  IF is_nan(M, x) \/ is_nan(M, y)
    THEN (IF is_nan(M, x) THEN {x \cup {FracBits(M) - 1}} ELSE {})
         \cup (IF is_nan(M, y) THEN {y \cup {FracBits(M) - 1}} ELSE {})
    ELSE {QNaN(M), QNaN(M) \cup {SignBit(M)}}

\* Each operation gives the set of patterns the host may return: one
\* pattern, except for a NaN result.
add(M, x, y) ==
  IF is_nan(M, x) \/ is_nan(M, y) THEN NaNOut(M, x, y)
  ELSE IF is_infinite(M, x) /\ is_infinite(M, y)
    THEN (IF Sign(M, x) = Sign(M, y) THEN {x} ELSE NaNOut(M, x, y))
  ELSE IF is_infinite(M, x) THEN {x}
  ELSE IF is_infinite(M, y) THEN {y}
  ELSE LET a == Mag(M, x)
           b == Mag(M, y)
       IN IF Sign(M, x) = Sign(M, y) THEN {Pack(M, Sign(M, x), DAdd(a, b))}
          ELSE IF a = b THEN {Pack(M, FALSE, {})}
          ELSE IF DLt(b, a) THEN {Pack(M, Sign(M, x), DSub(a, b))}
          ELSE {Pack(M, Sign(M, y), DSub(b, a))}

neg(M, x) == DXor(x, {SignBit(M)})
abs(M, x) == x \ {SignBit(M)}

\* the subtraction with its operands exchanged
sub_swapped(M, x, y) ==
  IF is_nan(M, x) \/ is_nan(M, y) THEN NaNOut(M, x, y)
  ELSE add(M, y, neg(M, x))

sub(M, x, y) ==
  IF is_nan(M, x) \/ is_nan(M, y) THEN NaNOut(M, x, y)
  ELSE add(M, x, neg(M, y))

mul(M, x, y) ==
  LET s == Sign(M, x) # Sign(M, y)
  IN IF is_nan(M, x) \/ is_nan(M, y) THEN NaNOut(M, x, y)
     ELSE IF is_infinite(M, x) \/ is_infinite(M, y)
       THEN (IF is_zero(M, x) \/ is_zero(M, y) THEN NaNOut(M, x, y)
             ELSE {InfPat(M) \cup SignPat(M, s)})
     ELSE {Pack(M, s, DMul(Mag(M, x), Mag(M, y)))}

div(M, x, y) ==
  LET s == Sign(M, x) # Sign(M, y)
  IN IF is_nan(M, x) \/ is_nan(M, y) THEN NaNOut(M, x, y)
     ELSE IF is_infinite(M, x)
       THEN (IF is_infinite(M, y) THEN NaNOut(M, x, y)
             ELSE {InfPat(M) \cup SignPat(M, s)})
     ELSE IF is_infinite(M, y) THEN {SignPat(M, s)}
     ELSE IF is_zero(M, y)
       THEN (IF is_zero(M, x) THEN NaNOut(M, x, y)
             ELSE {InfPat(M) \cup SignPat(M, s)})
     ELSE IF is_zero(M, x) THEN {SignPat(M, s)}
     ELSE LET a == Mag(M, x)
              b == Mag(M, y)
              hq == DMax(a) - DMax(b) - 1 - FracBits(M)
              lo == (IF hq > MinPos(M) THEN hq ELSE MinPos(M)) - 1
          IN {Pack(M, s, DDiv(a, b, lo))}

sqrt(M, x) ==
  IF is_nan(M, x) THEN NaNOut(M, x, x)
  ELSE IF is_zero(M, x) THEN {x}
  ELSE IF Sign(M, x) THEN NaNOut(M, x, x)
  ELSE IF is_infinite(M, x) THEN {x}
  ELSE LET a == Mag(M, x)
           hr == DMax(a) \div 2
       IN {Pack(M, FALSE, DSqrt(a, hr, hr - FracBits(M) - 1))}

\* the one pattern of an operation on finite operands
The(S) == CHOOSE v \in S : TRUE

\* f32::round / f64::round: to the nearest integer, halves away from zero
round(M, x) ==
  IF ~is_finite(M, x) THEN x
  ELSE Pack(M, Sign(M, x), DTrunc(DAdd(Mag(M, x), {-1})))

trunc(M, x) ==
  IF ~is_finite(M, x) THEN x ELSE Pack(M, Sign(M, x), DTrunc(Mag(M, x)))

\* the integer part of a magnitude, one more when it has a fraction
DUp(m) == IF DIsInt(m) THEN m ELSE DAdd(DTrunc(m), {0})

ceil(M, x) ==
  IF ~is_finite(M, x) THEN x
  ELSE IF Sign(M, x) THEN Pack(M, TRUE, DTrunc(Mag(M, x)))
  ELSE Pack(M, FALSE, DUp(Mag(M, x)))

floor(M, x) ==
  IF ~is_finite(M, x) THEN x
  ELSE IF Sign(M, x) THEN Pack(M, TRUE, DUp(Mag(M, x)))
  ELSE Pack(M, FALSE, DTrunc(Mag(M, x)))

\* bankers_round without the tie branch: halves go away from zero
bankers_round_away(M, x) == round(M, x)

\* FloatRawConvert::bankers_round
bankers_round(M, x) ==
  LET y == round(M, x)
  IN IF is_finite(M, x) /\ abs(M, The(sub(M, x, y))) = Pack(M, FALSE, {-1})
       THEN The(mul(M, round(M, The(mul(M, x, Pack(M, FALSE, {-1})))),
                    Pack(M, FALSE, {1})))
       ELSE y

\* FloatRawConvert::from_u64bits: f32 takes the low 32 bits (v as u32)
from_u64bits(M, v) == IF M = "f32" THEN And(v, W32) ELSE v
\* to_u64bits through a float register that quiets a signalling NaN
to_u64bits_quiet(M, x) ==
  LET bits == IF M = "f32" THEN And(x, W32) ELSE x
  IN IF is_nan(M, x) THEN bits \cup {FracBits(M) - 1} ELSE bits

\* FloatRawConvert::to_u64bits: the pattern, zero-extended to 64 bits
to_u64bits(M, x) == IF M = "f32" THEN And(x, W32) ELSE x

\* to_i64 / to_i32 as an unchecked cast: always Some, the integer cut to
\* `size` bits
to_int_unchecked(M, x, size) ==
  IF ~is_finite(M, x) THEN [some |-> TRUE, v |-> {}]
  ELSE LET m == DTrunc(Mag(M, x))
           cut == {k \in m : k < size}
       IN IF cut = {} THEN [some |-> TRUE, v |-> {}]
          ELSE IF Sign(M, x) THEN [some |-> TRUE, v |-> Not(DSub(cut, {0}))]
          ELSE [some |-> TRUE, v |-> cut]

\* ToPrimitive::to_i64 (size = 64) and to_i32 (size = 32) of the num crate,
\* followed by the macro's `v as u64`: None when the value is NaN, infinite
\* or, cut to its integer part, outside the signed range; else the two's
\* complement of the integer in 64 bits (an i32 is sign-extended)
to_int(M, x, size) ==
  IF ~is_finite(M, x) THEN [some |-> FALSE, v |-> {}]
  ELSE LET m == DTrunc(Mag(M, x))
       IN IF m = {} THEN [some |-> TRUE, v |-> {}]
          ELSE IF Sign(M, x)
            THEN [some |-> DMax(m) < size - 1 \/ m = {size - 1},
                  v |-> Not(DSub(m, {0}))]
            ELSE [some |-> DMax(m) < size - 1, v |-> m]

(***************************************************************************)
(* The state: struct Fpu, the CpuContext it is handed, and what the last   *)
(* call did                                                                *)
(***************************************************************************)
VARIABLES
  regs,        \* Fpu::regs: [u64; 32]
  fir,         \* Fpu::_fir
  fccr,        \* Fpu::fccr, the compact condition-code register
  fexr,        \* Fpu::_fexr
  fenr,        \* Fpu::_fenr
  fcsr,        \* Fpu::fcsr
  cpu_regs,    \* CpuContext::regs, the general registers
  cpu_pc,      \* CpuContext::pc
  last,        \* the last call: its name, opcode, pc and result
  branch_log,  \* the calls of CpuContext::branch the last call made
  tracer_log,  \* the calls of Tracer::break_here the last call made
  cc_log,      \* the calls of Fpu::set_cc the last call made
  ctc_x,       \* the value the last CTC1 wrote, until a compare runs
  steps,       \* the number of calls made
  pre,         \* the fields as they were when the last call was made
  arg,         \* the arguments of the last call, beside opcode and pc
  out          \* the value the last call returned, if it returns one

vars == <<regs, fir, fccr, fexr, fenr, fcsr, cpu_regs, cpu_pc, last,
          branch_log, tracer_log, cc_log, ctc_x, steps, pre, arg, out>>

RegIdx == 0..31

\* the fields of the coprocessor and of the CPU beside it
Fields ==
  [regs |-> regs, fir |-> fir, fccr |-> fccr, fexr |-> fexr, fenr |-> fenr,
   fcsr |-> fcsr, cpu_regs |-> cpu_regs, cpu_pc |-> cpu_pc]

(***************************************************************************)
(* Instruction fields                                                      *)
(***************************************************************************)
\* Fop::func
func(opcode) == ToNat(And(opcode, Lit(63)))
\* the flag index read from four bits, 11..8
cc_wide(opcode) == ToNat(And(Shr(opcode, 8), Lit(15)))
\* Fop::cc
cc(opcode) == ToNat(And(Shr(opcode, 8), Lit(7)))
\* Fop::rs
rs(opcode) == ToNat(And(Shr(opcode, 11), Lit(31)))
\* Fop::rt
rt(opcode) == ToNat(And(Shr(opcode, 16), Lit(31)))
\* Fop::rd
rd(opcode) == ToNat(And(Shr(opcode, 6), Lit(31)))
\* Fop::fs
fs(M, opcode) == from_u64bits(M, regs[rs(opcode)])
\* Fop::ft
ft(M, opcode) == from_u64bits(M, regs[rt(opcode)])
\* a write of the destination that also clears the source register
set_fd_consuming(M, opcode, v) ==
  [regs EXCEPT ![rs(opcode)] = {}, ![rd(opcode)] = to_u64bits(M, v)]
\* a binary32 write that replaces the low half of the destination only
set_fd_low(M, opcode, v) ==
  [regs EXCEPT ![rd(opcode)] =
     IF M = "f32" THEN (regs[rd(opcode)] \ W32) \cup to_u64bits(M, v)
     ELSE to_u64bits(M, v)]
\* Fop::set_fd: the register file after the write
set_fd(M, opcode, v) == [regs EXCEPT ![rd(opcode)] = to_u64bits(M, v)]

\* the top-level format of Fpu::op
fmt(opcode) == ToNat(And(Shr(opcode, 21), Lit(31)))

(***************************************************************************)
(* Condition codes                                                         *)
(***************************************************************************)
\* the bound check of set_cc and get_cc
cc_invalid(c) == c > 8

\* the FCSR position of flag c in Fpu::set_cc
cc2(c) == IF c > 0 THEN c + 23 + 1 ELSE c + 23

\* set_cc assigning the words instead of merging the bit into them
set_cc_clobber(c, val) ==
  [fccr |-> Shl(BoolWord(val), c), fcsr |-> Shl(BoolWord(val), cc2(c))]

\* set_cc with the mirror of every flag at cc + 23
set_cc_noskip(c, val) ==
  [fccr |-> Or(And(fccr, Not(Shl(Lit(1), c))), Shl(BoolWord(val), c)),
   fcsr |-> Or(And(fcsr, Not(Shl(Lit(1), c + 23))), Shl(BoolWord(val), c + 23))]

\* Fpu::set_cc past its bound check: the new fccr and fcsr
set_cc(c, val) ==
  [fccr |-> Or(And(fccr, Not(Shl(Lit(1), c))), Shl(BoolWord(val), c)),
   fcsr |-> Or(And(fcsr, Not(Shl(Lit(1), cc2(c)))), Shl(BoolWord(val), cc2(c)))]

\* Fpu::get_cc past its bound check
get_cc(c) == And(fccr, Shl(Lit(1), c)) # {}

(***************************************************************************)
(* Fpu::fop.  An outcome is what a call leaves: a panic message ("" when   *)
(* it returns) and the registers, fccr and fcsr after it.                  *)
(***************************************************************************)
Returned(r, f, c, calls) ==
  [panic |-> "", regs |-> r, fccr |-> f, fcsr |-> c, set_cc |-> calls]
Panicked(msg) ==
  [panic |-> msg, regs |-> regs, fccr |-> fccr, fcsr |-> fcsr, set_cc |-> <<>>]

\* the arms 0x00 .. 0x07: let v = ...; op.set_fd(v)
arith(M, opcode, vs) ==
  {Returned(set_fd(M, opcode, v), fccr, fcsr, <<>>) : v \in vs}

\* approx! with the integer zero-extended from `size` bits
approx_zx(M, opcode, rounded, size) ==
  LET r == to_int(M, rounded, size)
  IN IF r.some
       THEN {Returned([regs EXCEPT ![rd(opcode)] = And(r.v, 0..(size - 1))],
                      fccr, fcsr, <<>>)}
       ELSE {Panicked("approx out of range")}

\* macro approx!: the rounded source narrowed to an integer of `size` bits
approx(M, opcode, rounded, size) ==
  LET r == to_int(M, rounded, size)
  IN IF r.some
       THEN {Returned([regs EXCEPT ![rd(opcode)] = r.v], fccr, fcsr, <<>>)}
       ELSE {Panicked("approx out of range")}

\* macro cond!
\* cond! with the selector bits of less and equal exchanged
cond_swapped(M, opcode, f) ==
  LET nan == is_nan(M, fs(M, opcode)) \/ is_nan(M, ft(M, opcode))
      less == IF ~nan THEN lt(M, fs(M, opcode), ft(M, opcode)) ELSE FALSE
      equal == IF ~nan THEN eq(M, fs(M, opcode), ft(M, opcode)) ELSE FALSE
      c == (less /\ And(Lit(f), Lit(2)) # {})
             \/ (equal /\ And(Lit(f), Lit(4)) # {})
             \/ (nan /\ And(Lit(f), Lit(1)) # {})
  IN IF nan /\ And(Lit(f), Lit(8)) # {}
       THEN {Panicked("signal FPU NaN in comparison")}
     ELSE IF cc_invalid(cc(opcode)) THEN {Panicked("invalid cc code")}
     ELSE {Returned(regs, set_cc(cc(opcode), c).fccr, set_cc(cc(opcode), c).fcsr,
                    <<[cc |-> cc(opcode), val |-> c]>>)}

\* cond! with the flag written before the signalling check
cond_late_signal(M, opcode, f) ==
  LET nan == is_nan(M, fs(M, opcode)) \/ is_nan(M, ft(M, opcode))
      less == IF ~nan THEN lt(M, fs(M, opcode), ft(M, opcode)) ELSE FALSE
      equal == IF ~nan THEN eq(M, fs(M, opcode), ft(M, opcode)) ELSE FALSE
      c == (less /\ And(Lit(f), Lit(4)) # {})
             \/ (equal /\ And(Lit(f), Lit(2)) # {})
             \/ (nan /\ And(Lit(f), Lit(1)) # {})
  IN IF cc_invalid(cc(opcode)) THEN {Panicked("invalid cc code")}
     ELSE IF nan /\ And(Lit(f), Lit(8)) # {}
       THEN {[panic |-> "signal FPU NaN in comparison", regs |-> regs,
              fccr |-> set_cc(cc(opcode), c).fccr,
              fcsr |-> set_cc(cc(opcode), c).fcsr,
              set_cc |-> <<[cc |-> cc(opcode), val |-> c]>>]}
     ELSE {Returned(regs, set_cc(cc(opcode), c).fccr, set_cc(cc(opcode), c).fcsr,
                    <<[cc |-> cc(opcode), val |-> c]>>)}

cond(M, opcode, f) ==
  LET nan == is_nan(M, fs(M, opcode)) \/ is_nan(M, ft(M, opcode))
      less == IF ~nan THEN lt(M, fs(M, opcode), ft(M, opcode)) ELSE FALSE
      equal == IF ~nan THEN eq(M, fs(M, opcode), ft(M, opcode)) ELSE FALSE
      c == (less /\ And(Lit(f), Lit(4)) # {})
             \/ (equal /\ And(Lit(f), Lit(2)) # {})
             \/ (nan /\ And(Lit(f), Lit(1)) # {})
  IN IF nan /\ And(Lit(f), Lit(8)) # {}
       THEN {Panicked("signal FPU NaN in comparison")}
     ELSE IF cc_invalid(cc(opcode)) THEN {Panicked("invalid cc code")}
     ELSE {Returned(regs, set_cc(cc(opcode), c).fccr, set_cc(cc(opcode), c).fcsr,
                    <<[cc |-> cc(opcode), val |-> c]>>)}

fop(M, opcode) ==
  LET f == func(opcode)
      x == fs(M, opcode)
      y == ft(M, opcode)
  IN CASE f = 0 -> arith(M, opcode, add(M, x, y))
       [] f = 1 -> arith(M, opcode, sub(M, x, y))
       [] f = 2 -> arith(M, opcode, mul(M, x, y))
       [] f = 3 -> arith(M, opcode, div(M, x, y))
       [] f = 4 -> arith(M, opcode, sqrt(M, x))
       [] f = 5 -> arith(M, opcode, {abs(M, x)})
       [] f = 6 -> arith(M, opcode, {x})
       [] f = 7 -> arith(M, opcode, {neg(M, x)})
       [] f = 8 -> approx(M, opcode, bankers_round(M, x), 64)
       [] f = 9 -> approx(M, opcode, trunc(M, x), 64)
       [] f = 10 -> approx(M, opcode, ceil(M, x), 64)
       [] f = 11 -> approx(M, opcode, floor(M, x), 64)
       [] f = 12 -> approx(M, opcode, bankers_round(M, x), 32)
       [] f = 13 -> approx(M, opcode, trunc(M, x), 32)
       [] f = 14 -> approx(M, opcode, ceil(M, x), 32)
       [] f = 15 -> approx(M, opcode, floor(M, x), 32)
       [] f \in 48..63 -> cond(M, opcode, f)
       [] OTHER -> {Panicked("unimplemented COP1 opcode")}

(***************************************************************************)
(* The collaborators of Fpu::op                                            *)
(***************************************************************************)
\* Numerics::sx64 of the 16-bit immediate: its sign extension to 64 bits
sx64(w) == IF 15 \in w THEN Or(w, 16..63) ELSE w

\* what Tracer::break_here may return: Ok(()), or the error that stops the
\* emulation at a debugger
TracerResults == {"Ok", "Break"}

\* u64 addition and multiplication by 4, wrapping
Add64(a, b) == And(DAdd(a, b), W64)
Mul4(a) == Shl(a, 2)

(***************************************************************************)
(* Fpu::op.  An outcome is what a call leaves: its result (ret; "" when it *)
(* panics, and then panic is the message), the state after it, and the     *)
(* calls it made of CpuContext::branch, Tracer::break_here and set_cc.      *)
(***************************************************************************)
OpOutcome(ret, panic, r, f, c, g, b, tr) ==
  [ret |-> ret, panic |-> panic, regs |-> r, fccr |-> f, fcsr |-> c,
   cpu_regs |-> g, branch |-> b, tracer |-> tr, set_cc |-> <<>>]

\* break_here with the tracer's answer dropped
break_here_swallowed(msg, t) ==
  {OpOutcome("Ok", "", regs, fccr, fcsr, cpu_regs, <<>>,
             <<[msg |-> msg, result |-> t]>>)}

\* return t.break_here(msg)
break_here(msg, t) ==
  {OpOutcome(t, "", regs, fccr, fcsr, cpu_regs, <<>>,
             <<[msg |-> msg, result |-> t]>>)}

\* CFC1 moving the low 32 bits of fcsr
op_cfc1_low(opcode, t) ==
  IF rs(opcode) = 31
    THEN {OpOutcome("Ok", "", regs, fccr, fcsr,
                    [cpu_regs EXCEPT ![rt(opcode)] = And(fcsr, W32)], <<>>, <<>>)}
    ELSE break_here("CFC1 from unknown register", t)

\* the arm of format 2, CFC1
op_cfc1(opcode, t) ==
  IF rs(opcode) = 31
    THEN {OpOutcome("Ok", "", regs, fccr, fcsr,
                    [cpu_regs EXCEPT ![rt(opcode)] = fcsr], <<>>, <<>>)}
    ELSE break_here("CFC1 from unknown register", t)

\* CTC1 storing the general register before it looks at the index
op_ctc1_eager(opcode, t) ==
  IF rs(opcode) = 31
    THEN {OpOutcome("Ok", "", regs, fccr, cpu_regs[rt(opcode)], cpu_regs,
                    <<>>, <<>>)}
    ELSE {OpOutcome(t, "", regs, fccr, cpu_regs[rt(opcode)], cpu_regs, <<>>,
                    <<[msg |-> "CTC1 to unknown register", result |-> t]>>)}

\* the arm of format 6, CTC1
op_ctc1(opcode, t) ==
  IF rs(opcode) = 31
    THEN {OpOutcome("Ok", "", regs, fccr, cpu_regs[rt(opcode)], cpu_regs,
                    <<>>, <<>>)}
    ELSE break_here("CTC1 to unknown register", t)

\* the arm of format 8: the arguments of cpu.branch(cond, tgt, nd)
\* the target with the immediate zero-extended
branch_tgt_zx(opcode, pc) == Add64(pc, Mul4(And(opcode, Lit(65535))))
branch_tgt(opcode, pc) == Add64(pc, Mul4(sx64(And(opcode, Lit(65535)))))
branch_cc(opcode) == ToNat(And(Shr(opcode, 18), Lit(3)))
branch_nd(opcode) == And(opcode, Shl(Lit(1), 17)) # {}
branch_tf(opcode) == And(opcode, Shl(Lit(1), 16)) # {}

\* the branch arm with the branch-if-true bit ignored
op_bc1_no_tf(opcode) ==
  IF cc_invalid(branch_cc(opcode))
    THEN {OpOutcome("", "invalid cc code", regs, fccr, fcsr, cpu_regs,
                    <<>>, <<>>)}
    ELSE {OpOutcome("Ok", "", regs, fccr, fcsr, cpu_regs,
                    <<[cond |-> get_cc(branch_cc(opcode)),
                       tgt |-> branch_tgt(opcode, cpu_pc),
                       likely |-> branch_nd(opcode)]>>, <<>>)}

op_bc1(opcode) ==
  IF cc_invalid(branch_cc(opcode))
    THEN {OpOutcome("", "invalid cc code", regs, fccr, fcsr, cpu_regs,
                    <<>>, <<>>)}
    ELSE {OpOutcome("Ok", "", regs, fccr, fcsr, cpu_regs,
                    <<[cond |-> get_cc(branch_cc(opcode)) = branch_tf(opcode),
                       tgt |-> branch_tgt(opcode, cpu_pc),
                       likely |-> branch_nd(opcode)]>>, <<>>)}

\* the arms of formats 16 and 17 with an unimplemented selector passed over
op_fop_lenient(M, opcode) ==
  {[OpOutcome(IF o.panic = "" \/ o.panic = "unimplemented COP1 opcode"
                THEN "Ok" ELSE "",
              IF o.panic = "unimplemented COP1 opcode" THEN "" ELSE o.panic,
              o.regs, o.fccr, o.fcsr, cpu_regs, <<>>, <<>>)
      EXCEPT !.set_cc = o.set_cc]
     : o \in fop(M, opcode)}

\* the arms of formats 16 and 17: return self.fop::<M>(cpu, opcode, t)
op_fop(M, opcode) ==
  {[OpOutcome(IF o.panic = "" THEN "Ok" ELSE "", o.panic, o.regs, o.fccr,
              o.fcsr, cpu_regs, <<>>, <<>>) EXCEPT !.set_cc = o.set_cc]
     : o \in fop(M, opcode)}

op_outcomes(opcode, t) ==
  CASE fmt(opcode) = 2 -> op_cfc1(opcode, t)
    [] fmt(opcode) = 6 -> op_ctc1(opcode, t)
    [] fmt(opcode) = 8 -> op_bc1(opcode)
    [] fmt(opcode) = 16 -> op_fop("f32", opcode)
    [] fmt(opcode) = 17 -> op_fop("f64", opcode)
    [] OTHER -> break_here("unimplemented COP1 opcode", t)

\* <Fpu as Cop>::op(cpu, opcode, t), t the answer the tracer gives if asked.
\* A panic unwinds out of the call with the fields as the panicking arm left
\* them, and no later call is made (Running).
op(opcode, t) ==
  \E o \in op_outcomes(opcode, t) :
    /\ regs' = o.regs
    /\ fccr' = o.fccr
    /\ fcsr' = o.fcsr
    /\ cpu_regs' = o.cpu_regs
    /\ branch_log' = o.branch
    /\ tracer_log' = o.tracer
    /\ cc_log' = o.set_cc
    /\ last' = [call |-> "op", opcode |-> opcode, pc |-> cpu_pc,
                ret |-> o.ret, panic |-> o.panic]
    /\ ctc_x' = IF o.panic # "" \/ o.tracer # <<>> THEN ctc_x
                ELSE IF fmt(opcode) = 6 THEN <<cpu_regs[rt(opcode)]>>
                ELSE IF o.set_cc # <<>> THEN <<>>
                ELSE ctc_x
    /\ steps' = steps + 1
    /\ pre' = Fields
    /\ arg' = <<>>
    /\ out' = <<>>
    /\ UNCHANGED <<fir, fexr, fenr, cpu_pc>>

\* a write that keeps only the low 32 bits of the value
set_reg_low32(idx, val) ==
  /\ regs' = [regs EXCEPT ![idx] = And(val, W32)]
  /\ last' = [call |-> "set_reg", opcode |-> {}, pc |-> cpu_pc,
              ret |-> "", panic |-> ""]
  /\ branch_log' = <<>>
  /\ tracer_log' = <<>>
  /\ cc_log' = <<>>
  /\ steps' = steps + 1
  /\ pre' = Fields
  /\ arg' = <<idx, val>>
  /\ out' = <<>>
  /\ UNCHANGED <<fir, fccr, fexr, fenr, fcsr, cpu_regs, cpu_pc, ctc_x>>

\* <Fpu as Cop>::set_reg(idx, val), val a u128
set_reg(idx, val) ==
  /\ regs' = [regs EXCEPT ![idx] = And(val, W64)]
  /\ last' = [call |-> "set_reg", opcode |-> {}, pc |-> cpu_pc,
              ret |-> "", panic |-> ""]
  /\ branch_log' = <<>>
  /\ tracer_log' = <<>>
  /\ cc_log' = <<>>
  /\ steps' = steps + 1
  /\ pre' = Fields
  /\ arg' = <<idx, val>>
  /\ out' = <<>>
  /\ UNCHANGED <<fir, fccr, fexr, fenr, fcsr, cpu_regs, cpu_pc, ctc_x>>

\* the CPU, between two coprocessor calls: it runs other instructions, which
\* leave val in general register r and the program counter at pc
cpu_run(r, val, pc) ==
  /\ cpu_regs' = [cpu_regs EXCEPT ![r] = val]
  /\ cpu_pc' = pc
  /\ last' = [call |-> "cpu", opcode |-> {}, pc |-> pc,
              ret |-> "", panic |-> ""]
  /\ branch_log' = <<>>
  /\ tracer_log' = <<>>
  /\ cc_log' = <<>>
  /\ steps' = steps + 1
  /\ pre' = Fields
  /\ arg' = <<>>
  /\ out' = <<>>
  /\ UNCHANGED <<regs, fir, fccr, fexr, fenr, fcsr, ctc_x>>

\* Fpu::new, beside a CPU whose general registers are g and whose program
\* counter is pc
new(g, pc) ==
  /\ regs = [i \in RegIdx |-> {}]
  /\ fir = {}
  /\ fccr = {}
  /\ fexr = {}
  /\ fenr = {}
  /\ fcsr = {}
  /\ cpu_regs = g
  /\ cpu_pc = pc
  /\ last = [call |-> "new", opcode |-> {}, pc |-> pc, ret |-> "", panic |-> ""]
  /\ branch_log = <<>>
  /\ tracer_log = <<>>
  /\ cc_log = <<>>
  /\ ctc_x = <<>>
  /\ steps = 0
  /\ pre = Fields
  /\ arg = <<>>
  /\ out = <<>>

(***************************************************************************)
(* Inputs                                                                  *)
(***************************************************************************)
\* a COP1 instruction word from its fields (major opcode 0x11)
Enc(f, t, s, d, fn) ==
  {26, 30} \cup Shl(Lit(f), 21) \cup Shl(Lit(t), 16) \cup Shl(Lit(s), 11)
    \cup Shl(Lit(d), 6) \cup Lit(fn)
\* a format-8 word: bits 20..16 and the 16-bit immediate
EncB(t, imm) == {26, 30} \cup Shl(Lit(8), 21) \cup Shl(Lit(t), 16) \cup Lit(imm)

\* register contents: 1.0, 2.0 and a quiet NaN in both widths, and 1.0f32
\* below 32 set bits (a NaN when read as f64)
One(M) == Pack(M, FALSE, {0})
Two(M) == Pack(M, FALSE, {1})
FVals ==
  {One("f32"), Two("f32"), QNaN("f32"), One("f64"), Two("f64"), QNaN("f64"),
   One("f32") \cup (32..63)}

\* general-register contents: the mirror bit of flag 0 alone, and all ones
GprVals == {{23}, W64}
\* program counters: 0x1000, and the last word of the address space
PCs == {{12}, 2..63}
ZeroRegs == [i \in RegIdx |-> {}]

(***************************************************************************)
(* Specification Spec: runs of calls on a fresh coprocessor                *)
(***************************************************************************)
MaxSteps == 4

\* a Rust panic ends the run
Running == last.panic = ""

\* CFC1 and CTC1 between general register 1 and control register 31
CFC1 == Enc(2, 1, 31, 0, 0)
CTC1 == Enc(6, 1, 31, 0, 0)
\* a compare of width f (16 or 17), selector fn, fs = 1, ft = 2, cc field c
Cmp(f, fn, c) == Enc(f, 2, 1, 4 * c, fn)

SeqOpcodes ==
  {CFC1, CTC1, Enc(6, 1, 0, 0, 0)}
    \cup {EncB(t, 5) : t \in {0, 1, 5, 17}}
    \cup {Cmp(17, 50, 0), Cmp(17, 50, 4), Cmp(17, 60, 1), Cmp(16, 49, 7)}
    \cup {Enc(17, 2, 1, 3, 0), Enc(16, 0, 1, 3, 13), Enc(17, 2, 1, 3, 16),
          Enc(0, 1, 31, 0, 0)}
\* set_reg values, one of them wider than 64 bits
SeqVals == {QNaN("f64") \cup {64}, Two("f64")}

Init == \E g \in GprVals, pc \in PCs : new([ZeroRegs EXCEPT ![1] = g], pc)

SetReg ==
  \E idx \in {1, 2}, val \in SeqVals :
    steps < MaxSteps /\ Running /\ set_reg(idx, val)
CpuRun ==
  \E val \in GprVals, pc \in PCs :
    steps < MaxSteps /\ Running /\ cpu_run(1, val, pc)
Op ==
  \E opcode \in SeqOpcodes, t \in TracerResults :
    steps < MaxSteps /\ Running /\ op(opcode, t)

Next == SetReg \/ CpuRun \/ Op
Spec == Init /\ [][Next]_vars

(***************************************************************************)
(* Specification SpecOp: one call of op in a state the coprocessor can be  *)
(* in.  Every field of the state is reachable independently: regs by       *)
(* set_reg, fccr by compares, fcsr by CTC1, the CPU's registers by the CPU *)
(***************************************************************************)
MaxOps == 1

\* fccr after compares: no flag, every flag, flags 1 and 5
CcVals == {{}, 0..7, {1, 5}}
\* fcsr after CTC1
CsVals == {{}, W64, {23, 25}}

\* immediates: 5, -1, the most negative and the most positive
Imms == {5, 65535, 32768, 32767}

CtlOpcodes == {Enc(f, 1, s, 0, 0) : f \in {2, 6}, s \in 0..31}
OtherOpcodes == {Enc(f, 1, 31, 0, 0) : f \in (0..31) \ {2, 6, 8, 16, 17}}
BranchOpcodes == {EncB(t, imm) : t \in 0..31, imm \in Imms}
FopOpcodes == {Enc(f, 2, 1, 3, fn) : f \in {16, 17}, fn \in 0..47}
CmpOpcodes == {Cmp(f, fn, c) : f \in {16, 17}, fn \in 48..63, c \in 0..7}
AllOpcodes ==
  CtlOpcodes \cup OtherOpcodes \cup BranchOpcodes \cup FopOpcodes
    \cup CmpOpcodes

\* a coprocessor at rest with registers r, flags f and status word c, beside
\* a CPU with general registers g at pc
at_rest(r, f, c, g, pc) ==
  /\ regs = r
  /\ fir = {}
  /\ fccr = f
  /\ fexr = {}
  /\ fenr = {}
  /\ fcsr = c
  /\ cpu_regs = g
  /\ cpu_pc = pc
  /\ last = [call |-> "any", opcode |-> {}, pc |-> pc, ret |-> "", panic |-> ""]
  /\ branch_log = <<>>
  /\ tracer_log = <<>>
  /\ cc_log = <<>>
  /\ ctc_x = <<>>
  /\ steps = 0
  /\ pre = Fields
  /\ arg = <<>>
  /\ out = <<>>

\* the states sampled: every pair of operands under fresh flags, and every
\* combination of flags, status word, general register and pc under the
\* operands 1.0 and 2.0
InitOp ==
  \/ \E a \in FVals, b \in FVals :
       at_rest([ZeroRegs EXCEPT ![1] = a, ![2] = b], {}, {},
               [ZeroRegs EXCEPT ![1] = {23}], {12})
  \/ \E f \in CcVals, c \in CsVals, g \in GprVals, pc \in PCs :
       at_rest([ZeroRegs EXCEPT ![1] = One("f64"), ![2] = Two("f64")], f, c,
               [ZeroRegs EXCEPT ![1] = g], pc)

OpAny ==
  \E opcode \in AllOpcodes, t \in TracerResults :
    steps < MaxOps /\ Running /\ op(opcode, t)

NextOp == OpAny
SpecOp == InitOp /\ [][NextOp]_vars

(***************************************************************************)
(* Properties                                                              *)
(***************************************************************************)
\* the FCSR position that mirrors flag k
MirrorPos(k) == IF k = 0 THEN 23 ELSE k + 24
\* bits lo..hi of the instruction word w, as a number
Field(w, lo, hi) == ToNat(Shr(And(w, lo..hi), lo))
\* the operand width of a format-16 or format-17 word
Width(w) == IF Field(w, 21, 25) = 16 THEN "f32" ELSE "f64"
\* register i read at width M
Operand(M, i) == IF M = "f32" THEN regs[i] \cap W32 ELSE regs[i]
IsFop(w) == Field(w, 21, 25) \in {16, 17}
IsCompare(w) == IsFop(w) /\ Field(w, 0, 5) \in 48..63
IsBranch(w) == Field(w, 21, 25) = 8
\* the flag a compare of selector bits w computes from operands a and b
Predicate(M, w, a, b) ==
  LET unordered == is_nan(M, a) \/ is_nan(M, b)
      less == ~unordered /\ lt(M, a, b)
      equal == ~unordered /\ eq(M, a, b)
  IN (less /\ 2 \in w) \/ (equal /\ 1 \in w) \/ (unordered /\ 0 \in w)
Unordered(M, w) ==
  is_nan(M, Operand(M, Field(w, 11, 15)))
    \/ is_nan(M, Operand(M, Field(w, 16, 20)))

\* C1: in every state reachable from a fresh FPU the two condition-code
\* storages agree: for every cc in 0..7, bit cc of fccr equals the mirrored
\* FCSR bit (bit 23 for cc = 0, bit cc + 24 for cc > 0).
C1_StoragesAgree ==
  \A k \in 0..7 : (k \in fccr) <=> (MirrorPos(k) \in fcsr)

\* a CTC1 of 0x800000 has returned: FCSR holds the mirror of flag 0, fccr not
C1_AfterCtc1 ==
  /\ last.call = "op" /\ last.opcode = CTC1 /\ last.ret = "Ok"
  /\ 23 \in fcsr
  /\ 0 \notin fccr

\* C2: for every cc in 0..7 and every boolean v, in any state, after
\* set_cc(cc, v) get_cc(cc) returns v and the mirrored FCSR bit (23 for
\* cc = 0, cc + 24 for cc > 0) equals v.
C2_SetThenGet ==
  \A i \in 1..Len(cc_log) :
    /\ cc_log[i].cc \in 0..7
    /\ get_cc(cc_log[i].cc) = cc_log[i].val
    /\ (MirrorPos(cc_log[i].cc) \in fcsr) = cc_log[i].val

\* set_cc(5, FALSE) has cleared flag 5 beside a flag that stays set
C2_ClearedFive ==
  /\ cc_log = <<[cc |-> 5, val |-> FALSE]>>
  /\ 1 \in fccr
  /\ 29 \notin fcsr
  /\ 5 \notin fccr

\* C3: a compare (format 16 or 17, selector 0x30..0x3F) that does not signal
\* leaves in the flag selected by bits 10..8 of the opcode the value
\* (less and selector bit 2) or (equal and selector bit 1) or (unordered and
\* selector bit 0), for every selector and pair of operands; selector 0x32
\* on (1.0, 1.0) sets it, on (1.0, 2.0) clears it, and selector 0x33 on
\* (NaN, 1.0) sets it.
C3_Step ==
  (last'.call = "op" /\ IsCompare(last'.opcode)) =>
    LET w == last'.opcode
        M == Width(w)
        a == Operand(M, Field(w, 11, 15))
        b == Operand(M, Field(w, 16, 20))
        flag == Field(w, 8, 10) \in fccr'
        one == IF M = "f32" THEN 23..29 ELSE 52..61
        two == IF M = "f32" THEN {30} ELSE {62}
        nan == IF M = "f32" THEN 22..30 ELSE 51..62
    IN /\ ~(Unordered(M, w) /\ 3 \in w) =>
            last'.panic = "" /\ (flag <=> Predicate(M, w, a, b))
       /\ (Field(w, 0, 5) = 50 /\ a = one /\ b = one) => flag
       /\ (Field(w, 0, 5) = 50 /\ a = one /\ b = two) => ~flag
       /\ (Field(w, 0, 5) = 51 /\ a = nan /\ b = one) => flag
C3_ComparePredicate == [][C3_Step]_vars

\* selector 0x33 at width f32 on (NaN, 1.0) has set flag 3
C3_UnorderedSets ==
  /\ last.call = "op" /\ last.opcode = Cmp(16, 51, 3) /\ last.panic = ""
  /\ regs[1] = QNaN("f32") /\ regs[2] = One("f32")
  /\ 3 \in fccr

\* C4: a compare whose selector has bit 3 set and whose source or target
\* operand is NaN panics with the signalling message and writes no flag; with
\* both operands ordered it returns and writes its flag.
C4_Step ==
  (last'.call = "op" /\ IsCompare(last'.opcode) /\ 3 \in last'.opcode) =>
    LET w == last'.opcode
        M == Width(w)
        a == Operand(M, Field(w, 11, 15))
        b == Operand(M, Field(w, 16, 20))
    IN IF Unordered(M, w)
         THEN /\ last'.panic = "signal FPU NaN in comparison"
              /\ cc_log' = <<>>
              /\ fccr' = fccr
              /\ fcsr' = fcsr
         ELSE /\ last'.panic = ""
              /\ last'.ret = "Ok"
              /\ cc_log' = <<[cc |-> Field(w, 8, 10),
                              val |-> Predicate(M, w, a, b)]>>
C4_SignallingCompare == [][C4_Step]_vars

\* selector 0x3C at width f64 with a NaN target operand has panicked
C4_Signalled ==
  /\ last.call = "op" /\ last.opcode = Cmp(17, 60, 2)
  /\ last.panic = "signal FPU NaN in comparison"
  /\ regs[1] = One("f64") /\ regs[2] = QNaN("f64")
  /\ fccr = {}

\* C5: every format-8 opcode, in any state, calls cpu.branch exactly once,
\* with cond = (the flag selected by bits 19..18, read from fccr, equals bit
\* 16) and likely = bit 17; the call itself moves no program counter.
C5_Step ==
  (last'.call = "op" /\ IsBranch(last'.opcode)) =>
    LET w == last'.opcode
    IN /\ last'.panic = "" /\ last'.ret = "Ok"
       /\ Len(branch_log') = 1
       /\ branch_log'[1].cond = ((Field(w, 18, 19) \in fccr) = (16 \in w))
       /\ branch_log'[1].likely = (17 \in w)
       /\ cpu_pc' = cpu_pc
       /\ fccr' = fccr
C5_BranchCall == [][C5_Step]_vars

\* a branch-if-true likely on flag 1, which is set, has asked for the branch
C5_TakenOnFlagOne ==
  /\ last.call = "op" /\ last.opcode = EncB(7, 5)
  /\ fccr = {1, 5}
  /\ Len(branch_log) = 1 /\ branch_log[1].cond /\ branch_log[1].likely

\* pc + 4 * n modulo 2^64, n the 16-bit immediate read as a signed number:
\* an addition when bit 15 is clear, otherwise a subtraction of
\* 4 * (65536 - n), from pc + 2^64 when pc is the smaller
SignedTarget(pc, imm) ==
  LET n == ToNat(imm)
      back == Lit(4 * (65536 - n))
  IN IF n < 32768 THEN DAdd(pc, Lit(4 * n)) \cap W64
     ELSE IF DLe(back, pc) THEN DSub(pc, back)
     ELSE DSub(pc \cup {64}, back)

C7_EveryFlagBranchable ==
  \A i \in 1..Len(cc_log) :
    \E b \in BranchOpcodes :
      \E o \in op_bc1(b) :
        /\ branch_cc(b) = cc_log[i].cc
        /\ Len(o.branch) = 1
        /\ o.branch[1].cond = (cc_log[i].val = branch_tf(b))

\* a compare has set flag 4
C7_SetFour ==
  /\ last.call = "op" /\ last.opcode = Cmp(17, 50, 4) /\ last.panic = ""
  /\ cc_log = <<[cc |-> 4, val |-> TRUE]>>
  /\ 4 \in fccr

\* C8: a CTC1 to control register 31 carrying X, then a CFC1 from control
\* register 31 with no compare in between, leaves exactly X, all 64 bits, in
\* the general register CFC1 names.
C8_CtcThenCfc ==
  (/\ last.call = "op" /\ Field(last.opcode, 21, 25) = 2
   /\ Field(last.opcode, 11, 15) = 31 /\ last.panic = ""
   /\ ctc_x # <<>>) =>
    cpu_regs[Field(last.opcode, 16, 20)] = ctc_x[1]

\* CTC1 of all ones, another call, then CFC1: all 64 ones are back
C8_AllOnesBack ==
  /\ last.call = "op" /\ last.opcode = CFC1 /\ last.ret = "Ok"
  /\ steps = 3
  /\ ctc_x = <<W64>>
  /\ cpu_regs[1] = W64
  /\ fccr = {}

\* C9: CFC1 or CTC1 on a control register other than 31, and every format
\* outside {2, 6, 8, 16, 17}, calls the tracer's break_here exactly once and
\* returns its result as it is; the call never panics.
C9_Step ==
  (/\ last'.call = "op"
   /\ \/ Field(last'.opcode, 21, 25) \in {2, 6}
         /\ Field(last'.opcode, 11, 15) # 31
      \/ Field(last'.opcode, 21, 25) \notin {2, 6, 8, 16, 17}) =>
    /\ last'.panic = ""
    /\ Len(tracer_log') = 1
    /\ last'.ret = tracer_log'[1].result
    /\ tracer_log'[1].msg =
         (IF Field(last'.opcode, 21, 25) = 2 THEN "CFC1 from unknown register"
          ELSE IF Field(last'.opcode, 21, 25) = 6 THEN "CTC1 to unknown register"
          ELSE "unimplemented COP1 opcode")
    /\ <<regs', fccr', fcsr', cpu_regs'>> = <<regs, fccr, fcsr, cpu_regs>>
C9_Recoverable == [][C9_Step]_vars

\* CTC1 to control register 0 has returned the tracer's Break
C9_BreakReturned ==
  /\ last.call = "op" /\ last.opcode = Enc(6, 1, 0, 0, 0)
  /\ last.ret = "Break"
  /\ tracer_log = <<[msg |-> "CTC1 to unknown register", result |-> "Break"]>>

\* C10: at format 16 or 17 every selector in 0x10..0x2F panics as an
\* unimplemented operation, without a call of the tracer and without
\* returning; every selector in 0x00..0x0F and 0x30..0x3F reaches its
\* operation, which returns or panics for a reason of its own.
C10_SelectorDispatch ==
  (last.call = "op" /\ IsFop(last.opcode)) =>
    /\ tracer_log = <<>>
    /\ IF Field(last.opcode, 0, 5) \in 16..47
         THEN last.panic = "unimplemented COP1 opcode" /\ last.ret = ""
       ELSE IF Field(last.opcode, 0, 5) \in 8..15
         THEN \/ last.panic = "" /\ last.ret = "Ok"
              \/ last.panic = "approx out of range" /\ last.ret = ""
       ELSE IF Field(last.opcode, 0, 5) \in 56..63
         THEN \/ last.panic = "" /\ last.ret = "Ok"
              \/ last.panic = "signal FPU NaN in comparison" /\ last.ret = ""
       ELSE last.panic = "" /\ last.ret = "Ok"

\* selector 0x10 at format 17 has panicked
C10_Unimplemented ==
  /\ last.call = "op" /\ last.opcode = Enc(17, 2, 1, 3, 16)
  /\ last.panic = "unimplemented COP1 opcode"
  /\ tracer_log = <<>>

(***************************************************************************)
(* Specification SpecConv: one unary instruction (selectors 0x04..0x0F,    *)
(* fs = 1, fd = 3) on a source register sampled around the limits of the   *)
(* integer ranges                                                          *)
(***************************************************************************)
\* a 64-bit word from four 16-bit numbers, the most significant first
Hex4(a, b, c, d) ==
  Shl(Lit(a), 48) \cup Shl(Lit(b), 32) \cup Shl(Lit(c), 16) \cup Lit(d)

\* 3.9 and -1.2, to the nearest float of each width
F3p9(M) ==
  IF M = "f32" THEN Hex4(0, 0, 16505, 39322) ELSE Hex4(16399, 13107, 13107, 13107)
Fm1p2(M) ==
  IF M = "f32" THEN Hex4(0, 0, 49049, 39322) ELSE Hex4(49139, 13107, 13107, 13107)
\* a signalling NaN with payload 1
SNaN(M) == InfPat(M) \cup {0}

\* magnitudes: 0, 1/4, 1/2, 1.5, 2.5, 3.5, 2^31 - 1/2, 2^31, 2^31 + 1/2,
\* 2^31 + 1, 1.5 * 2^62, 2^63, 2^63 + 2^11
ConvMags ==
  {{}, {-2}, {-1}, {0, -1}, {1, -1}, {1, 0, -1}, (-1)..30, {31}, {31, -1},
   {31, 0}, {62, 61}, {63}, {63, 11}}
ConvVals ==
  UNION {{Pack(M, s, m) : s \in BOOLEAN, m \in ConvMags}
           \cup {F3p9(M), Fm1p2(M), InfPat(M), SignPat(M, TRUE) \cup InfPat(M),
                 QNaN(M), SNaN(M)} : M \in Widths}
    \cup {One("f32") \cup (32..63)}
\* what the destination register holds before the instruction
Sentinel == {0, 63}
UnaryOpcodes == {Enc(f, 0, 1, 3, fn) : f \in {16, 17}, fn \in 4..15}

InitConv ==
  \E a \in ConvVals :
    at_rest([ZeroRegs EXCEPT ![1] = a, ![3] = Sentinel], {}, {}, ZeroRegs, {12})
OpConv ==
  \E opcode \in UnaryOpcodes, t \in TracerResults :
    steps < MaxOps /\ Running /\ op(opcode, t)
NextConv == OpConv
SpecConv == InitConv /\ [][NextConv]_vars

\* the magnitude of the integer a rounding mode (selector modulo 4: to
\* nearest even, toward zero, up, down) makes of sign s and magnitude m
IntMag(mode, s, m) ==
  CASE mode = 0 -> RoundAt(m, 0)
    [] mode = 1 -> DTrunc(m)
    [] mode = 2 -> IF s THEN DTrunc(m) ELSE DUp(m)
    [] OTHER -> IF s THEN DUp(m) ELSE DTrunc(m)
\* -2^(size-1) <= the integer <= 2^(size-1) - 1
Fits(s, n, size) ==
  n = {} \/ IF s THEN DLe(n, {size - 1}) ELSE DLt(n, {size - 1})
\* the two's complement of the integer in 64 bits
TwosComplement(s, n) == IF n # {} /\ s THEN DSub({64}, n) ELSE n
IsConvert(w) == IsFop(w) /\ Field(w, 0, 5) \in 8..15
\* the source of the convert w as the call found it
ConvSource(w) ==
  IF Width(w) = "f32" THEN pre.regs[Field(w, 11, 15)] \cap W32
  ELSE pre.regs[Field(w, 11, 15)]
ConvSize(w) == IF Field(w, 0, 5) \in 8..11 THEN 64 ELSE 32
ConvInt(w) ==
  IntMag(Field(w, 0, 5) % 4, Sign(Width(w), ConvSource(w)),
         Mag(Width(w), ConvSource(w)))
ConvInRange(w) ==
  /\ is_finite(Width(w), ConvSource(w))
  /\ Fits(Sign(Width(w), ConvSource(w)), ConvInt(w), ConvSize(w))

\* C11: a convert-to-integer (selectors 0x08..0x0F) whose rounded source does
\* not fit the signed target width (64 bits for 0x08..0x0B, 32 bits for
\* 0x0C..0x0F), a NaN or infinite source included, panics and leaves the
\* destination register as it was.
C11_OutOfRange ==
  (last.call = "op" /\ IsConvert(last.opcode) /\ ~ConvInRange(last.opcode)) =>
    /\ last.panic = "approx out of range"
    /\ last.ret = ""
    /\ regs = pre.regs

\* ROUND.W.D of 2^31 - 1/2, which rounds to 2^31, has panicked
C11_RoundsOutOfRange ==
  /\ last.call = "op" /\ last.opcode = Enc(17, 0, 1, 3, 12)
  /\ pre.regs[1] = Pack("f64", FALSE, (-1)..30)
  /\ last.panic = "approx out of range"
  /\ regs[3] = Sentinel

\* C12: for every in-range source a convert-to-integer writes to the
\* destination the integer its rounding mode gives (0x08/0x0C to nearest
\* even, 0x09/0x0D toward zero, 0x0A/0x0E up, 0x0B/0x0F down) in two's
\* complement, a negative 32-bit result sign-extended to 64 bits:
\* round(3.5) = 4, truncate(3.9) = 3, ceiling(-1.2) = -1, floor(-1.2) = -2.
C12_InRange ==
  (last.call = "op" /\ IsConvert(last.opcode) /\ ConvInRange(last.opcode)) =>
    LET w == last.opcode
        M == Width(w)
        a == ConvSource(w)
        mode == Field(w, 0, 5) % 4
        fd == Field(w, 6, 10)
    IN /\ last.panic = "" /\ last.ret = "Ok"
       /\ regs = [pre.regs EXCEPT
                    ![fd] = TwosComplement(Sign(M, a), ConvInt(w))]
       /\ (mode = 0 /\ a = Pack(M, FALSE, {1, 0, -1})) => regs[fd] = {2}
       /\ (mode = 1 /\ a = F3p9(M)) => regs[fd] = {0, 1}
       /\ (mode = 2 /\ a = Fm1p2(M)) => regs[fd] = W64
       /\ (mode = 3 /\ a = Fm1p2(M)) => regs[fd] = W64 \ {0}

\* FLOOR.W.S of -1.2 has written -2, sign-extended
C12_FloorNegative ==
  /\ last.call = "op" /\ last.opcode = Enc(16, 0, 1, 3, 15)
  /\ pre.regs[1] = Fm1p2("f32")
  /\ last.panic = ""
  /\ regs[3] = W64 \ {0}

(***************************************************************************)
(* Specification SpecRound: FloatRawConvert::bankers_round applied to one  *)
(* value                                                                   *)
(***************************************************************************)
\* a call of <M as FloatRawConvert>::bankers_round on x
call_bankers_round(M, x) ==
  /\ out' = <<bankers_round(M, x)>>
  /\ arg' = <<M, x>>
  /\ last' = [call |-> "bankers_round", opcode |-> {}, pc |-> cpu_pc,
              ret |-> "", panic |-> ""]
  /\ branch_log' = <<>>
  /\ tracer_log' = <<>>
  /\ cc_log' = <<>>
  /\ steps' = steps + 1
  /\ pre' = Fields
  /\ UNCHANGED <<regs, fir, fccr, fexr, fenr, fcsr, cpu_regs, cpu_pc, ctc_x>>

\* magnitudes: the quarters from 0 to 6, the floats next to 1/2 and to 2.5,
\* half-integers at the end of each width's fraction, and integers beyond
RoundMags ==
  {DShift(Lit(n), -2) : n \in 0..24}
    \cup {(-25)..(-2), {-1, -24}, (-54)..(-2), {-1, -53}, {1, -1, -22},
          {1, -1, -51}, {22, -1}, {22, 0, -1}, {51, -1}, {51, 0, -1}, {23, 0},
          {52, 0}, {100}}
RoundVals(M) ==
  {Pack(M, s, m) : s \in BOOLEAN, m \in RoundMags}
    \cup {InfPat(M), SignPat(M, TRUE) \cup InfPat(M), QNaN(M)}

InitRound == at_rest(ZeroRegs, {}, {}, ZeroRegs, {12})
BankersRound ==
  \E M \in Widths :
    \E x \in RoundVals(M) :
      steps < MaxOps /\ Running /\ call_bankers_round(M, x)
NextRound == BankersRound
SpecRound == InitRound /\ [][NextRound]_vars

\* the distance between two magnitudes
Dist(a, b) == IF DLe(a, b) THEN DSub(b, a) ELSE DSub(a, b)

\* C13: bankers_round(x) is an integer at most 1/2 from x, on the side of x's
\* sign, and the even one of the two neighbours when x is a half-integer:
\* 2.5 -> 2, 3.5 -> 4, -2.5 -> -2.
C13_HalfToEven ==
  (last.call = "bankers_round" /\ is_finite(arg[1], arg[2])) =>
    LET M == arg[1]
        x == arg[2]
        r == out[1]
    IN /\ is_finite(M, r)
       /\ DIsInt(Mag(M, r))
       /\ Sign(M, r) = Sign(M, x)
       /\ DLe(Dist(Mag(M, r), Mag(M, x)), {-1})
       /\ Dist(Mag(M, r), Mag(M, x)) = {-1} => 0 \notin Mag(M, r)
       /\ x = Pack(M, FALSE, {1, -1}) => r = Pack(M, FALSE, {1})
       /\ x = Pack(M, FALSE, {1, 0, -1}) => r = Pack(M, FALSE, {2})
       /\ x = Pack(M, TRUE, {1, -1}) => r = Pack(M, TRUE, {1})

\* -2.5 at width f32 has gone to -2.0
C13_MinusTwoAndAHalf ==
  /\ last.call = "bankers_round"
  /\ arg = <<"f32", Pack("f32", TRUE, {1, -1})>>
  /\ out = <<Pack("f32", TRUE, {1})>>

\* C14: the move (selector 0x06) at width W keeps the bit pattern: for every
\* 64-bit content of register fs, after the move the low W bits of register
\* fd are the low W bits fs held, a NaN's payload and the sign of zero
\* included; no other register changes.
C14_MovePreserves ==
  (last.call = "op" /\ IsFop(last.opcode) /\ Field(last.opcode, 0, 5) = 6) =>
    LET w == last.opcode
        low == IF Width(w) = "f32" THEN W32 ELSE W64
        fd == Field(w, 6, 10)
    IN /\ last.panic = "" /\ last.ret = "Ok"
       /\ regs[fd] \cap low = pre.regs[Field(w, 11, 15)] \cap low
       /\ \A j \in RegIdx \ {fd} : regs[j] = pre.regs[j]

\* MOV.S has copied a signalling NaN with its payload
C14_MovedSignallingNaN ==
  /\ last.call = "op" /\ last.opcode = Enc(16, 0, 1, 3, 6)
  /\ pre.regs[1] = SNaN("f32")
  /\ regs[3] = 23..30 \cup {0}

(***************************************************************************)
(* Specification SpecCc: one call of Fpu::set_cc or Fpu::get_cc, with any  *)
(* index up to MaxCc                                                       *)
(***************************************************************************)
MaxCc == 9

\* a call of Fpu::set_cc(c, val)
call_set_cc(c, val) ==
  /\ IF cc_invalid(c)
       THEN /\ last' = [call |-> "set_cc", opcode |-> {}, pc |-> cpu_pc,
                        ret |-> "", panic |-> "invalid cc code"]
            /\ cc_log' = <<>>
            /\ UNCHANGED <<fccr, fcsr, ctc_x>>
       ELSE /\ last' = [call |-> "set_cc", opcode |-> {}, pc |-> cpu_pc,
                        ret |-> "", panic |-> ""]
            /\ cc_log' = <<[cc |-> c, val |-> val]>>
            /\ fccr' = set_cc(c, val).fccr
            /\ fcsr' = set_cc(c, val).fcsr
            /\ ctc_x' = <<>>
  /\ arg' = <<c, val>>
  /\ out' = <<>>
  /\ branch_log' = <<>>
  /\ tracer_log' = <<>>
  /\ steps' = steps + 1
  /\ pre' = Fields
  /\ UNCHANGED <<regs, fir, fexr, fenr, cpu_regs, cpu_pc>>

\* a call of Fpu::get_cc(c)
call_get_cc(c) ==
  /\ IF cc_invalid(c)
       THEN /\ last' = [call |-> "get_cc", opcode |-> {}, pc |-> cpu_pc,
                        ret |-> "", panic |-> "invalid cc code"]
            /\ out' = <<>>
       ELSE /\ last' = [call |-> "get_cc", opcode |-> {}, pc |-> cpu_pc,
                        ret |-> "", panic |-> ""]
            /\ out' = <<get_cc(c)>>
  /\ arg' = <<c>>
  /\ branch_log' = <<>>
  /\ tracer_log' = <<>>
  /\ cc_log' = <<>>
  /\ steps' = steps + 1
  /\ pre' = Fields
  /\ UNCHANGED <<regs, fir, fccr, fexr, fenr, fcsr, cpu_regs, cpu_pc, ctc_x>>

InitCc ==
  \E f \in CcVals, c \in CsVals :
    at_rest([ZeroRegs EXCEPT ![1] = One("f64"), ![2] = Two("f64")], f, c,
            [ZeroRegs EXCEPT ![1] = {23}], {12})
SetCc ==
  \E c \in 0..MaxCc, val \in BOOLEAN :
    steps < MaxOps /\ Running /\ call_set_cc(c, val)
GetCc == \E c \in 0..MaxCc : steps < MaxOps /\ Running /\ call_get_cc(c)
NextCc == SetCc \/ GetCc
SpecCc == InitCc /\ [][NextCc]_vars

\* C15: set_cc(cc, v) and get_cc(cc) fail with the invalid-index condition
\* for every cc > 7, cc = 8 included, and then change neither fccr nor FCSR.
C15_InvalidIndexFails ==
  (last.call \in {"set_cc", "get_cc"} /\ arg[1] > 7) =>
    /\ last.panic = "invalid cc code"
    /\ fccr = pre.fccr
    /\ fcsr = pre.fcsr

\* set_cc(8, TRUE) has returned, with bit 8 of fccr and bit 32 of FCSR set
C15_EightAccepted ==
  /\ last.call = "set_cc" /\ arg = <<8, TRUE>>
  /\ last.panic = ""
  /\ pre.fccr = {} /\ pre.fcsr = {}
  /\ fccr = {8} /\ fcsr = {32}

\* C20: set_cc(cc, v) for cc in 0..7 changes at most bit cc of fccr and at
\* most the one mirrored bit of FCSR: every other flag, every other FCSR bit
\* (rounding mode, flag bits, bit 24) and every data register keep their
\* values.
C20_OnlyOneFlag ==
  (last.call = "set_cc" /\ arg[1] \in 0..7) =>
    /\ last.panic = ""
    /\ fccr \ {arg[1]} = pre.fccr \ {arg[1]}
    /\ fcsr \ {MirrorPos(arg[1])} = pre.fcsr \ {MirrorPos(arg[1])}
    /\ [Fields EXCEPT !.fccr = {}, !.fcsr = {}]
         = [pre EXCEPT !.fccr = {}, !.fcsr = {}]

\* set_cc(3, FALSE) has cleared flag 3 and FCSR bit 27 among all ones
C20_ClearedThree ==
  /\ last.call = "set_cc" /\ arg = <<3, FALSE>>
  /\ pre.fccr = 0..7 /\ pre.fcsr = W64
  /\ fccr = (0..7) \ {3}
  /\ fcsr = W64 \ {27}

(***************************************************************************)
(* Inspection: <Fpu as Cop>::reg and <Fpu as Cop>::decode, both on &self   *)
(***************************************************************************)
\* an operand of a DecodedInsn: a register named by a table and an index
\* into it (REG_NAMES for the general registers, FPU_CREG_NAMES for the
\* control registers), an immediate, or a target address
OReg(table, i) ==
  [kind |-> "OReg", table |-> table, index |-> i, imm |-> 0, addr |-> {}]
IReg(table, i) ==
  [kind |-> "IReg", table |-> table, index |-> i, imm |-> 0, addr |-> {}]
Imm8(v) == [kind |-> "Imm8", table |-> "", index |-> 0, imm |-> v, addr |-> {}]
Imm32(v) ==
  [kind |-> "Imm32", table |-> "", index |-> 0, imm |-> v, addr |-> {}]
Target(a) ==
  [kind |-> "Target", table |-> "", index |-> 0, imm |-> 0, addr |-> a]
\* DecodedInsn::new1 and DecodedInsn::new2
new1(name, a) == [name |-> name, args |-> <<a>>]
new2(name, a, b) == [name |-> name, args |-> <<a, b>>]

\* the locals of decode
decode_fmt(opcode) == ToNat(And(Shr(opcode, 21), Lit(31)))
decode_rt(opcode) == ToNat(And(Shr(opcode, 16), Lit(31)))
decode_fs(opcode) == ToNat(And(Shr(opcode, 11), Lit(31)))
decode_tgt(opcode, pc) == Add64(pc, Mul4(sx64(And(opcode, Lit(65535)))))
\* the flag index of decode read from bits 20..18
decode_cc3(opcode) == ToNat(And(Shr(opcode, 18), Lit(7)))
decode_cc(opcode) == ToNat(And(Shr(opcode, 18), Lit(3)))
decode_nd(opcode) == And(opcode, Shl(Lit(1), 17)) # {}
decode_tf(opcode) == And(opcode, Shl(Lit(1), 16)) # {}
decode_name(opcode) ==
  IF decode_tf(opcode)
    THEN IF decode_nd(opcode) THEN "BC1TL" ELSE "BC1T"
    ELSE IF decode_nd(opcode) THEN "BC1FL" ELSE "BC1F"

\* the DecodedInsn decode returns
decode_insn(opcode, pc) ==
  CASE decode_fmt(opcode) = 2 ->
         new2("cfc1", OReg("REG_NAMES", decode_rt(opcode)),
              IReg("FPU_CREG_NAMES", decode_fs(opcode)))
    [] decode_fmt(opcode) = 6 ->
         new2("ctc1", IReg("REG_NAMES", decode_rt(opcode)),
              OReg("FPU_CREG_NAMES", decode_fs(opcode)))
    [] decode_fmt(opcode) = 8 ->
         IF decode_cc(opcode) # 0
           THEN new2(decode_name(opcode), Imm8(decode_cc(opcode)),
                     Target(decode_tgt(opcode, pc)))
           ELSE new1(decode_name(opcode), Target(decode_tgt(opcode, pc)))
    [] OTHER -> new1("cop1?", Imm32(decode_fmt(opcode)))

\* <Fpu as Cop>::decode(opcode, pc)
decode(opcode, pc) ==
  /\ out' = <<decode_insn(opcode, pc)>>
  /\ arg' = <<>>
  /\ last' = [call |-> "decode", opcode |-> opcode, pc |-> pc,
              ret |-> "", panic |-> ""]
  /\ branch_log' = <<>>
  /\ tracer_log' = <<>>
  /\ cc_log' = <<>>
  /\ steps' = steps + 1
  /\ pre' = Fields
  /\ UNCHANGED <<regs, fir, fccr, fexr, fenr, fcsr, cpu_regs, cpu_pc, ctc_x>>

\* a read of a register that takes its content away
reg_consuming(idx) ==
  /\ out' = <<regs[idx]>>
  /\ regs' = [regs EXCEPT ![idx] = {}]
  /\ arg' = <<idx>>
  /\ last' = [call |-> "reg", opcode |-> {}, pc |-> cpu_pc,
              ret |-> "", panic |-> ""]
  /\ branch_log' = <<>>
  /\ tracer_log' = <<>>
  /\ cc_log' = <<>>
  /\ steps' = steps + 1
  /\ pre' = Fields
  /\ UNCHANGED <<fir, fccr, fexr, fenr, fcsr, cpu_regs, cpu_pc, ctc_x>>

\* <Fpu as Cop>::reg(idx), idx in 0..31: self.regs[idx] as u128
reg(idx) ==
  /\ out' = <<regs[idx]>>
  /\ arg' = <<idx>>
  /\ last' = [call |-> "reg", opcode |-> {}, pc |-> cpu_pc,
              ret |-> "", panic |-> ""]
  /\ branch_log' = <<>>
  /\ tracer_log' = <<>>
  /\ cc_log' = <<>>
  /\ steps' = steps + 1
  /\ pre' = Fields
  /\ UNCHANGED <<regs, fir, fccr, fexr, fenr, fcsr, cpu_regs, cpu_pc, ctc_x>>

(***************************************************************************)
(* Specification SpecView: one inspection of a coprocessor whose registers *)
(* all differ                                                              *)
(***************************************************************************)
\* opcodes of every format: all the control and branch words, the other
\* formats, and words of formats 16 and 17
ViewOpcodes ==
  CtlOpcodes \cup OtherOpcodes \cup BranchOpcodes
    \cup {Enc(16, 2, 1, 3, 0), Enc(17, 2, 1, 3, 6), Cmp(16, 50, 1),
          Cmp(17, 60, 7)}
InitView ==
  at_rest([i \in RegIdx |-> Lit(i) \cup {63}], {1, 5}, {23, 25},
          [ZeroRegs EXCEPT ![1] = {23}], {12})
RegAny == \E idx \in RegIdx : steps < MaxOps /\ Running /\ reg(idx)
DecodeAny ==
  \E opcode \in ViewOpcodes, pc \in PCs :
    steps < MaxOps /\ Running /\ decode(opcode, pc)
NextView == RegAny \/ DecodeAny
SpecView == InitView /\ [][NextView]_vars

\* C16: inspection changes nothing and cannot fail: for every opcode, pc and
\* register index 0..31, reg and decode leave the registers, fccr, FCSR and
\* the reserved registers as they were; reg returns the register and decode
\* returns a decoded instruction.
C16_InspectionIsPure ==
  (last.call \in {"reg", "decode"}) =>
    /\ Fields = pre
    /\ last.panic = ""
    /\ Len(out) = 1
    /\ last.call = "reg" => out[1] = pre.regs[arg[1]]
    /\ last.call = "decode" =>
         /\ out[1].name \in {"cfc1", "ctc1", "BC1T", "BC1TL", "BC1F", "BC1FL",
                             "cop1?"}
         /\ Len(out[1].args) \in {1, 2}

\* reg(31) has returned register 31 of a coprocessor with flags set
C16_ReadLast ==
  /\ last.call = "reg" /\ arg = <<31>>
  /\ out = <<{0, 1, 2, 3, 4, 63}>>
  /\ regs[31] = {0, 1, 2, 3, 4, 63}
  /\ fccr = {1, 5}

\* C17: for every format-8 opcode and pc, decode names the instruction BC1T,
\* BC1TL, BC1F or BC1FL by bits 16 and 17 and shows the target and the flag
\* index op uses for that opcode at that pc (index 0 is left out of the
\* operands); formats 2 and 6 are cfc1 and ctc1, every other format is
\* "cop1?" with the raw format value.
C17_DecodeMirrorsOp ==
  (last.call = "decode") =>
    LET w == last.opcode
        f == Field(w, 21, 25)
        d == out[1]
    IN /\ f = 8 =>
            /\ d.name = (IF 16 \in w THEN IF 17 \in w THEN "BC1TL" ELSE "BC1T"
                         ELSE IF 17 \in w THEN "BC1FL" ELSE "BC1F")
            /\ d.args[Len(d.args)] = Target(branch_tgt(w, last.pc))
            /\ IF branch_cc(w) = 0 THEN Len(d.args) = 1
               ELSE Len(d.args) = 2 /\ d.args[1] = Imm8(branch_cc(w))
       /\ f = 2 => d.name = "cfc1"
       /\ f = 6 => d.name = "ctc1"
       /\ f \notin {2, 6, 8} => d = [name |-> "cop1?", args |-> <<Imm32(f)>>]

\* a branch-if-true likely on flag 1 with immediate -1 at 0x1000 is shown as
\* BC1TL 1, 0x0FFC
C17_DecodedLikely ==
  /\ last.call = "decode" /\ last.opcode = EncB(7, 65535) /\ last.pc = {12}
  /\ out = <<[name |-> "BC1TL", args |-> <<Imm8(1), Target(2..11)>>]>>

(***************************************************************************)
(* Specification SpecReg: writes and reads of the registers through        *)
(* <Fpu as Cop>::set_reg and <Fpu as Cop>::reg                             *)
(***************************************************************************)
MaxRegCalls == 2
\* u128 values: one below 2^64, one with bits above bit 63, all ones
RegVals == {{5, 62}, {0, 63, 64, 100}, 0..127}
InitReg ==
  at_rest([i \in RegIdx |-> Lit(i) \cup {63}], {1, 5}, {23, 25},
          [ZeroRegs EXCEPT ![1] = {23}], {12})
WriteReg ==
  \E idx \in RegIdx, val \in RegVals :
    steps < MaxRegCalls /\ Running /\ set_reg(idx, val)
ReadReg == \E idx \in RegIdx : steps < MaxRegCalls /\ Running /\ reg(idx)
NextReg == WriteReg \/ ReadReg
SpecReg == InitReg /\ [][NextReg]_vars

\* C18: for every index 0..31 and every wide value val, set_reg(index, val)
\* followed by reg(index) returns val modulo 2^64, neither call fails, and
\* set_reg changes no register but the indexed one (and no other field).
C18_WriteThenRead ==
  /\ [](last.call = "set_reg" =>
          /\ last.panic = ""
          /\ \A i \in RegIdx \ {arg[1]} : regs[i] = pre.regs[i]
          /\ [Fields EXCEPT !.regs = pre.regs] = pre)
  /\ [][(last.call = "set_reg" /\ last'.call = "reg" /\ arg'[1] = arg[1]) =>
          /\ last'.panic = ""
          /\ out' = <<And(arg[2], W64)>>]_vars

\* register 31 was written with 2^100 + 2^64 + 2^63 + 1 and read back as
\* 2^63 + 1
C18_ReadBackTruncated ==
  /\ last.call = "reg" /\ arg = <<31>>
  /\ out = <<{0, 63}>>
  /\ regs = [i \in RegIdx |-> IF i = 31 THEN {0, 63} ELSE Lit(i) \cup {63}]

(***************************************************************************)
(* Specification SpecArith: one add, subtract, multiply or divide          *)
(* (selectors 0x00..0x03, fs = 1, ft = 2, fd = 3) on finite operands       *)
(***************************************************************************)
\* the operands of each width: +0, -0, the float nearest 0.1, -3, the
\* largest finite value, the smallest subnormal
ArithVals32 ==
  <<Hex4(0, 0, 0, 0),
    Hex4(0, 0, 32768, 0),
    Hex4(0, 0, 15820, 52429),
    Hex4(0, 0, 49216, 0),
    Hex4(0, 0, 32639, 65535),
    Hex4(0, 0, 0, 1)>>
ArithVals64 ==
  <<Hex4(0, 0, 0, 0),
    Hex4(32768, 0, 0, 0),
    Hex4(16313, 39321, 39321, 39322),
    Hex4(49160, 0, 0, 0),
    Hex4(32751, 65535, 65535, 65535),
    Hex4(0, 0, 0, 1)>>
ArithVals(M) == IF M = "f32" THEN ArithVals32 ELSE ArithVals64
\* bits above the low half of the register of a binary32 source operand
HighBits == {40, 63}
ArithOpcodes == {Enc(f, 2, 1, 3, fn) : f \in {16, 17}, fn \in 0..3}

InitArith ==
  \E M \in Widths, i \in 1..6, j \in 1..6 :
    at_rest([ZeroRegs EXCEPT
               ![1] = ArithVals(M)[i] \cup (IF M = "f32" THEN HighBits ELSE {}),
               ![2] = ArithVals(M)[j], ![3] = Sentinel],
            {}, {}, ZeroRegs, {12})
OpArith ==
  \E opcode \in ArithOpcodes, t \in TracerResults :
    steps < MaxOps /\ Running /\ op(opcode, t)
NextArith == OpArith
SpecArith == InitArith /\ [][NextArith]_vars

\* marks a result that is a NaN, of any sign and payload
AnyNaN == {64}
\* the IEEE-754 sum of a and b at binary32 (round to nearest even), a by row
\* and b by column
Sum32 ==
  <<
    <<Hex4(0, 0, 0, 0), Hex4(0, 0, 0, 0),
      Hex4(0, 0, 15820, 52429), Hex4(0, 0, 49216, 0),
      Hex4(0, 0, 32639, 65535), Hex4(0, 0, 0, 1)>>,
    <<Hex4(0, 0, 0, 0), Hex4(0, 0, 32768, 0),
      Hex4(0, 0, 15820, 52429), Hex4(0, 0, 49216, 0),
      Hex4(0, 0, 32639, 65535), Hex4(0, 0, 0, 1)>>,
    <<Hex4(0, 0, 15820, 52429), Hex4(0, 0, 15820, 52429),
      Hex4(0, 0, 15948, 52429), Hex4(0, 0, 49209, 39322),
      Hex4(0, 0, 32639, 65535), Hex4(0, 0, 15820, 52429)>>,
    <<Hex4(0, 0, 49216, 0), Hex4(0, 0, 49216, 0),
      Hex4(0, 0, 49209, 39322), Hex4(0, 0, 49344, 0),
      Hex4(0, 0, 32639, 65535), Hex4(0, 0, 49216, 0)>>,
    <<Hex4(0, 0, 32639, 65535), Hex4(0, 0, 32639, 65535),
      Hex4(0, 0, 32639, 65535), Hex4(0, 0, 32639, 65535),
      Hex4(0, 0, 32640, 0), Hex4(0, 0, 32639, 65535)>>,
    <<Hex4(0, 0, 0, 1), Hex4(0, 0, 0, 1),
      Hex4(0, 0, 15820, 52429), Hex4(0, 0, 49216, 0),
      Hex4(0, 0, 32639, 65535), Hex4(0, 0, 0, 2)>>
  >>
\* the IEEE-754 difference of a and b at binary32 (round to nearest even), a by row
\* and b by column
Difference32 ==
  <<
    <<Hex4(0, 0, 0, 0), Hex4(0, 0, 0, 0),
      Hex4(0, 0, 48588, 52429), Hex4(0, 0, 16448, 0),
      Hex4(0, 0, 65407, 65535), Hex4(0, 0, 32768, 1)>>,
    <<Hex4(0, 0, 32768, 0), Hex4(0, 0, 0, 0),
      Hex4(0, 0, 48588, 52429), Hex4(0, 0, 16448, 0),
      Hex4(0, 0, 65407, 65535), Hex4(0, 0, 32768, 1)>>,
    <<Hex4(0, 0, 15820, 52429), Hex4(0, 0, 15820, 52429),
      Hex4(0, 0, 0, 0), Hex4(0, 0, 16454, 26214),
      Hex4(0, 0, 65407, 65535), Hex4(0, 0, 15820, 52429)>>,
    <<Hex4(0, 0, 49216, 0), Hex4(0, 0, 49216, 0),
      Hex4(0, 0, 49222, 26214), Hex4(0, 0, 0, 0),
      Hex4(0, 0, 65407, 65535), Hex4(0, 0, 49216, 0)>>,
    <<Hex4(0, 0, 32639, 65535), Hex4(0, 0, 32639, 65535),
      Hex4(0, 0, 32639, 65535), Hex4(0, 0, 32639, 65535),
      Hex4(0, 0, 0, 0), Hex4(0, 0, 32639, 65535)>>,
    <<Hex4(0, 0, 0, 1), Hex4(0, 0, 0, 1),
      Hex4(0, 0, 48588, 52429), Hex4(0, 0, 16448, 0),
      Hex4(0, 0, 65407, 65535), Hex4(0, 0, 0, 0)>>
  >>
\* the IEEE-754 product of a and b at binary32 (round to nearest even), a by row
\* and b by column
Product32 ==
  <<
    <<Hex4(0, 0, 0, 0), Hex4(0, 0, 32768, 0),
      Hex4(0, 0, 0, 0), Hex4(0, 0, 32768, 0),
      Hex4(0, 0, 0, 0), Hex4(0, 0, 0, 0)>>,
    <<Hex4(0, 0, 32768, 0), Hex4(0, 0, 0, 0),
      Hex4(0, 0, 32768, 0), Hex4(0, 0, 0, 0),
      Hex4(0, 0, 32768, 0), Hex4(0, 0, 32768, 0)>>,
    <<Hex4(0, 0, 0, 0), Hex4(0, 0, 32768, 0),
      Hex4(0, 0, 15395, 55051), Hex4(0, 0, 48793, 39322),
      Hex4(0, 0, 32204, 52428), Hex4(0, 0, 0, 0)>>,
    <<Hex4(0, 0, 32768, 0), Hex4(0, 0, 0, 0),
      Hex4(0, 0, 48793, 39322), Hex4(0, 0, 16656, 0),
      Hex4(0, 0, 65408, 0), Hex4(0, 0, 32768, 3)>>,
    <<Hex4(0, 0, 0, 0), Hex4(0, 0, 32768, 0),
      Hex4(0, 0, 32204, 52428), Hex4(0, 0, 65408, 0),
      Hex4(0, 0, 32640, 0), Hex4(0, 0, 13567, 65535)>>,
    <<Hex4(0, 0, 0, 0), Hex4(0, 0, 32768, 0),
      Hex4(0, 0, 0, 0), Hex4(0, 0, 32768, 3),
      Hex4(0, 0, 13567, 65535), Hex4(0, 0, 0, 0)>>
  >>
\* the IEEE-754 quotient of a and b at binary32 (round to nearest even), a by row
\* and b by column
Quotient32 ==
  <<
    <<AnyNaN, AnyNaN,
      Hex4(0, 0, 0, 0), Hex4(0, 0, 32768, 0),
      Hex4(0, 0, 0, 0), Hex4(0, 0, 0, 0)>>,
    <<AnyNaN, AnyNaN,
      Hex4(0, 0, 32768, 0), Hex4(0, 0, 0, 0),
      Hex4(0, 0, 32768, 0), Hex4(0, 0, 32768, 0)>>,
    <<Hex4(0, 0, 32640, 0), Hex4(0, 0, 65408, 0),
      Hex4(0, 0, 16256, 0), Hex4(0, 0, 48392, 34953),
      Hex4(0, 0, 3, 13107), Hex4(0, 0, 32640, 0)>>,
    <<Hex4(0, 0, 65408, 0), Hex4(0, 0, 32640, 0),
      Hex4(0, 0, 49648, 0), Hex4(0, 0, 16256, 0),
      Hex4(0, 0, 32864, 0), Hex4(0, 0, 65408, 0)>>,
    <<Hex4(0, 0, 32640, 0), Hex4(0, 0, 65408, 0),
      Hex4(0, 0, 32640, 0), Hex4(0, 0, 65194, 43690),
      Hex4(0, 0, 16256, 0), Hex4(0, 0, 32640, 0)>>,
    <<Hex4(0, 0, 32640, 0), Hex4(0, 0, 65408, 0),
      Hex4(0, 0, 0, 10), Hex4(0, 0, 32768, 0),
      Hex4(0, 0, 0, 0), Hex4(0, 0, 16256, 0)>>
  >>
\* the IEEE-754 sum of a and b at binary64 (round to nearest even), a by row
\* and b by column
Sum64 ==
  <<
    <<Hex4(0, 0, 0, 0), Hex4(0, 0, 0, 0),
      Hex4(16313, 39321, 39321, 39322), Hex4(49160, 0, 0, 0),
      Hex4(32751, 65535, 65535, 65535), Hex4(0, 0, 0, 1)>>,
    <<Hex4(0, 0, 0, 0), Hex4(32768, 0, 0, 0),
      Hex4(16313, 39321, 39321, 39322), Hex4(49160, 0, 0, 0),
      Hex4(32751, 65535, 65535, 65535), Hex4(0, 0, 0, 1)>>,
    <<Hex4(16313, 39321, 39321, 39322), Hex4(16313, 39321, 39321, 39322),
      Hex4(16329, 39321, 39321, 39322), Hex4(49159, 13107, 13107, 13107),
      Hex4(32751, 65535, 65535, 65535), Hex4(16313, 39321, 39321, 39322)>>,
    <<Hex4(49160, 0, 0, 0), Hex4(49160, 0, 0, 0),
      Hex4(49159, 13107, 13107, 13107), Hex4(49176, 0, 0, 0),
      Hex4(32751, 65535, 65535, 65535), Hex4(49160, 0, 0, 0)>>,
    <<Hex4(32751, 65535, 65535, 65535), Hex4(32751, 65535, 65535, 65535),
      Hex4(32751, 65535, 65535, 65535), Hex4(32751, 65535, 65535, 65535),
      Hex4(32752, 0, 0, 0), Hex4(32751, 65535, 65535, 65535)>>,
    <<Hex4(0, 0, 0, 1), Hex4(0, 0, 0, 1),
      Hex4(16313, 39321, 39321, 39322), Hex4(49160, 0, 0, 0),
      Hex4(32751, 65535, 65535, 65535), Hex4(0, 0, 0, 2)>>
  >>
\* the IEEE-754 difference of a and b at binary64 (round to nearest even), a by row
\* and b by column
Difference64 ==
  <<
    <<Hex4(0, 0, 0, 0), Hex4(0, 0, 0, 0),
      Hex4(49081, 39321, 39321, 39322), Hex4(16392, 0, 0, 0),
      Hex4(65519, 65535, 65535, 65535), Hex4(32768, 0, 0, 1)>>,
    <<Hex4(32768, 0, 0, 0), Hex4(0, 0, 0, 0),
      Hex4(49081, 39321, 39321, 39322), Hex4(16392, 0, 0, 0),
      Hex4(65519, 65535, 65535, 65535), Hex4(32768, 0, 0, 1)>>,
    <<Hex4(16313, 39321, 39321, 39322), Hex4(16313, 39321, 39321, 39322),
      Hex4(0, 0, 0, 0), Hex4(16392, 52428, 52428, 52429),
      Hex4(65519, 65535, 65535, 65535), Hex4(16313, 39321, 39321, 39322)>>,
    <<Hex4(49160, 0, 0, 0), Hex4(49160, 0, 0, 0),
      Hex4(49160, 52428, 52428, 52429), Hex4(0, 0, 0, 0),
      Hex4(65519, 65535, 65535, 65535), Hex4(49160, 0, 0, 0)>>,
    <<Hex4(32751, 65535, 65535, 65535), Hex4(32751, 65535, 65535, 65535),
      Hex4(32751, 65535, 65535, 65535), Hex4(32751, 65535, 65535, 65535),
      Hex4(0, 0, 0, 0), Hex4(32751, 65535, 65535, 65535)>>,
    <<Hex4(0, 0, 0, 1), Hex4(0, 0, 0, 1),
      Hex4(49081, 39321, 39321, 39322), Hex4(16392, 0, 0, 0),
      Hex4(65519, 65535, 65535, 65535), Hex4(0, 0, 0, 0)>>
  >>
\* the IEEE-754 product of a and b at binary64 (round to nearest even), a by row
\* and b by column
Product64 ==
  <<
    <<Hex4(0, 0, 0, 0), Hex4(32768, 0, 0, 0),
      Hex4(0, 0, 0, 0), Hex4(32768, 0, 0, 0),
      Hex4(0, 0, 0, 0), Hex4(0, 0, 0, 0)>>,
    <<Hex4(32768, 0, 0, 0), Hex4(0, 0, 0, 0),
      Hex4(32768, 0, 0, 0), Hex4(0, 0, 0, 0),
      Hex4(32768, 0, 0, 0), Hex4(32768, 0, 0, 0)>>,
    <<Hex4(0, 0, 0, 0), Hex4(32768, 0, 0, 0),
      Hex4(16260, 31457, 18350, 5244), Hex4(49107, 13107, 13107, 13108),
      Hex4(32697, 39321, 39321, 39321), Hex4(0, 0, 0, 0)>>,
    <<Hex4(32768, 0, 0, 0), Hex4(0, 0, 0, 0),
      Hex4(49107, 13107, 13107, 13108), Hex4(16418, 0, 0, 0),
      Hex4(65520, 0, 0, 0), Hex4(32768, 0, 0, 3)>>,
    <<Hex4(0, 0, 0, 0), Hex4(32768, 0, 0, 0),
      Hex4(32697, 39321, 39321, 39321), Hex4(65520, 0, 0, 0),
      Hex4(32752, 0, 0, 0), Hex4(15567, 65535, 65535, 65535)>>,
    <<Hex4(0, 0, 0, 0), Hex4(32768, 0, 0, 0),
      Hex4(0, 0, 0, 0), Hex4(32768, 0, 0, 3),
      Hex4(15567, 65535, 65535, 65535), Hex4(0, 0, 0, 0)>>
  >>
\* the IEEE-754 quotient of a and b at binary64 (round to nearest even), a by row
\* and b by column
Quotient64 ==
  <<
    <<AnyNaN, AnyNaN,
      Hex4(0, 0, 0, 0), Hex4(32768, 0, 0, 0),
      Hex4(0, 0, 0, 0), Hex4(0, 0, 0, 0)>>,
    <<AnyNaN, AnyNaN,
      Hex4(32768, 0, 0, 0), Hex4(0, 0, 0, 0),
      Hex4(32768, 0, 0, 0), Hex4(32768, 0, 0, 0)>>,
    <<Hex4(32752, 0, 0, 0), Hex4(65520, 0, 0, 0),
      Hex4(16368, 0, 0, 0), Hex4(49057, 4369, 4369, 4369),
      Hex4(0, 26214, 26214, 26214), Hex4(32752, 0, 0, 0)>>,
    <<Hex4(65520, 0, 0, 0), Hex4(32752, 0, 0, 0),
      Hex4(49214, 0, 0, 0), Hex4(16368, 0, 0, 0),
      Hex4(32780, 0, 0, 0), Hex4(65520, 0, 0, 0)>>,
    <<Hex4(32752, 0, 0, 0), Hex4(65520, 0, 0, 0),
      Hex4(32752, 0, 0, 0), Hex4(65493, 21845, 21845, 21845),
      Hex4(16368, 0, 0, 0), Hex4(32752, 0, 0, 0)>>,
    <<Hex4(32752, 0, 0, 0), Hex4(65520, 0, 0, 0),
      Hex4(0, 0, 0, 10), Hex4(32768, 0, 0, 0),
      Hex4(0, 0, 0, 0), Hex4(16368, 0, 0, 0)>>
  >>
ArithRef(M, fn) ==
  IF M = "f32"
    THEN <<Sum32, Difference32, Product32, Quotient32>>[fn + 1]
    ELSE <<Sum64, Difference64, Product64, Quotient64>>[fn + 1]

\* C19: for finite operands a, b in the source and target registers at
\* width W, add, subtract, multiply and divide (selectors 0x00..0x03) return
\* without failure and write to the destination the IEEE-754 result at width
\* W bit for bit, signed zeros and infinities included; a division by zero
\* gives the IEEE result.
C19_ArithmeticIsIEEE ==
  (last.call = "op" /\ IsFop(last.opcode) /\ Field(last.opcode, 0, 5) \in 0..3)
  => LET w == last.opcode
         M == IF Field(w, 21, 25) = 16 THEN "f32" ELSE "f64"
         fn == Field(w, 0, 5)
         word == IF M = "f32" THEN W32 ELSE W64
         a == And(pre.regs[Field(w, 11, 15)], word)
         b == And(pre.regs[Field(w, 16, 20)], word)
         r == regs[Field(w, 6, 10)]
     IN \A i \in 1..6, j \in 1..6 :
          (a = ArithVals(M)[i] /\ b = ArithVals(M)[j]) =>
            /\ last.panic = ""
            /\ LET e == ArithRef(M, fn)[i][j]
               IN IF e = AnyNaN THEN And(r, word) = r /\ is_nan(M, r)
                  ELSE r = e

\* -3 divided by -0 at binary32 has given +infinity, the high half of the
\* destination zero
C19_DividedByMinusZero ==
  /\ last.call = "op" /\ last.opcode = Enc(16, 2, 1, 3, 3) /\ last.panic = ""
  /\ pre.regs[1] = Hex4(32768, 256, 49216, 0)
  /\ pre.regs[2] = Hex4(0, 0, 32768, 0)
  /\ regs[3] = Hex4(0, 0, 32640, 0)

\* C21: the "invalid cc code" failure is unreachable through op: for every
\* opcode and state, the index a compare passes to set_cc is in 0..7 (bits
\* 10..8 of the opcode), the index a branch passes to get_cc is in 0..3, and
\* no call of op ends in that panic.
C21_InvalidCcUnreachable ==
  (last.call = "op") =>
    /\ last.panic # "invalid cc code"
    /\ \A i \in 1..Len(cc_log) : cc_log[i].cc \in 0..7
    /\ (IsCompare(last.opcode) /\ last.panic = "") =>
         /\ Len(cc_log) = 1
         /\ cc_log[1].cc = Field(last.opcode, 8, 10)
    /\ IsBranch(last.opcode) =>
         /\ branch_cc(last.opcode) \in 0..3
         /\ ~cc_invalid(branch_cc(last.opcode))
         /\ Len(branch_log) = 1

\* a binary64 compare for equality of 1.0 and 2.0 has passed index 7 to
\* set_cc with all flags set before
C21_ComparedOnSeven ==
  /\ last.call = "op" /\ last.opcode = Cmp(17, 50, 7) /\ last.panic = ""
  /\ cc_log = <<[cc |-> 7, val |-> FALSE]>>
  /\ pre.fccr = 0..7
  /\ fccr = 0..6

\* C22: an arithmetic or convert instruction (format 16 or 17, selector
\* 0x00..0x0F) that completes changes at most the destination register
\* regs[fd]: every other register, fccr, FCSR, the reserved registers (which
\* stay zero), the CPU's general registers and pc are as before, and the
\* CPU's branch is not called; a compare that completes changes no register.
C22_OnlyDestination ==
  (last.call = "op" /\ IsFop(last.opcode) /\ last.panic = "") =>
    LET w == last.opcode
        fd == Field(w, 6, 10)
    IN /\ Field(w, 0, 5) \in 0..15 =>
            /\ [Fields EXCEPT !.regs = [regs EXCEPT ![fd] = pre.regs[fd]]] = pre
            /\ fir = {} /\ fexr = {} /\ fenr = {}
            /\ branch_log = <<>>
            /\ last.ret = "Ok"
       /\ IsCompare(w) => regs = pre.regs

\* a binary64 add of 1.0 and 2.0 has written 3.0 to register 3 of a
\* coprocessor with flags 1 and 5 set and a CPU at the last word of memory
C22_AddedBesideFlags ==
  /\ last.call = "op" /\ last.opcode = Enc(17, 2, 1, 3, 0) /\ last.panic = ""
  /\ pre.regs[3] = {}
  /\ regs[3] = {51, 62}
  /\ fccr = {1, 5} /\ fcsr = {23, 25}
  /\ cpu_pc = 2..63

\* C23: a failing op changes nothing: when op ends in a break of the tracer
\* (control register other than 31, unimplemented format) or in a panic
\* (unimplemented selector, conversion out of range, signalling compare),
\* the registers, fccr, FCSR and the CPU's general registers hold what they
\* held before the call, and neither cpu.branch nor set_cc was called.
C23_FailureKeepsState ==
  (last.call = "op" /\ (last.panic # "" \/ tracer_log # <<>>)) =>
    /\ Fields = pre
    /\ branch_log = <<>>
    /\ cc_log = <<>>
    /\ last.panic \in {"", "unimplemented COP1 opcode", "approx out of range",
                       "signal FPU NaN in comparison"}
    /\ tracer_log # <<>> =>
         /\ last.panic = ""
         /\ Field(last.opcode, 21, 25) \notin {8, 16, 17}

\* a CTC1 to control register 0 from a general register of all ones has
\* ended in a break, FCSR still 0x2800000
C23_RefusedControlWrite ==
  /\ last.call = "op" /\ last.opcode = Enc(6, 1, 0, 0, 0) /\ last.ret = "Break"
  /\ tracer_log = <<[msg |-> "CTC1 to unknown register", result |-> "Break"]>>
  /\ cpu_regs[1] = W64
  /\ fcsr = {23, 25}

(***************************************************************************)
(* Specification SpecWidth: one instruction of selector 0x00..0x07 at      *)
(* either width (fs = 1, ft = 2, fd = 3 or fd = fs = 1) on registers whose *)
(* low halves are binary32 operands and whose high halves vary             *)
(***************************************************************************)
\* high halves of a register: zero, all ones, bits 40 and 63
Highs == {{}, 32..63, {40, 63}}
WidthOpcodes ==
  {Enc(f, 2, 1, d, fn) : f \in {16, 17}, d \in {1, 3}, fn \in 0..7}

InitWidth ==
  \E i \in 1..6, j \in {1, 3, 4}, ha \in Highs, hb \in {{}, 32..63} :
    at_rest([ZeroRegs EXCEPT ![1] = ArithVals32[i] \cup ha,
                             ![2] = ArithVals32[j] \cup hb, ![3] = W64],
            {}, {}, ZeroRegs, {12})
\* formats 16 and 17 never consult the tracer
OpWidth ==
  \E opcode \in WidthOpcodes : steps < MaxOps /\ Running /\ op(opcode, "Ok")
NextWidth == OpWidth
SpecWidth == InitWidth /\ [][NextWidth]_vars

\* the IEEE-754 square root of a at binary32 (round to nearest even)
Sqrt32 ==
  <<Hex4(0, 0, 0, 0), Hex4(0, 0, 32768, 0), Hex4(0, 0, 16033, 59547),
    AnyNaN, Hex4(0, 0, 24447, 65535), Hex4(0, 0, 6709, 1267)>>

\* the binary32 result of selector fn on the operands ArithVals32[i] and
\* ArithVals32[j]
Result32(fn, i, j) ==
  CASE fn \in 0..3 -> ArithRef("f32", fn)[i][j]
    [] fn = 4 -> Sqrt32[i]
    [] fn = 5 -> ArithVals32[i] \ {31}
    [] fn = 6 -> ArithVals32[i]
    [] fn = 7 -> DXor(ArithVals32[i], {31})

\* C24: after a format-16 instruction of selector 0x00..0x07 (a MOV onto
\* its own source included) bits 63..32 of the destination are zero,
\* whatever the destination and the sources held, and the low half is the
\* binary32 result of the low halves of the sources alone; format 17 reads
\* and writes all 64 bits.
C24_SingleUsesLowHalf ==
  (last.call = "op" /\ IsFop(last.opcode) /\ Field(last.opcode, 0, 5) \in 0..7)
  => LET w == last.opcode
         fn == Field(w, 0, 5)
         x == pre.regs[Field(w, 11, 15)]
         y == pre.regs[Field(w, 16, 20)]
         r == regs[Field(w, 6, 10)]
     IN /\ last.panic = ""
        /\ Field(w, 21, 25) = 16 =>
             /\ r \cap (32..63) = {}
             /\ \A i \in 1..6, j \in 1..6 :
                  (x \cap W32 = ArithVals32[i] /\ y \cap W32 = ArithVals32[j])
                  => IF Result32(fn, i, j) = AnyNaN THEN is_nan("f32", r)
                     ELSE r = Result32(fn, i, j)
        /\ Field(w, 21, 25) = 17 =>
             /\ fn = 5 => r = x \ {63}
             /\ fn = 6 => r = x
             /\ fn = 7 => r = DXor(x, {63})
             /\ (fn = 0 /\ y = {} /\ is_finite("f64", x) /\ x # {63}) => r = x

\* a single-precision MOV of register 1 onto itself has cleared the high
\* half, all ones before, and kept the float nearest 0.1 in the low half
C24_MovedOntoItself ==
  /\ last.call = "op" /\ last.opcode = Enc(16, 2, 1, 1, 6) /\ last.panic = ""
  /\ pre.regs[1] = Hex4(65535, 65535, 15820, 52429)
  /\ regs[1] = Hex4(0, 0, 15820, 52429)
====
